---- MODULE Spec2Model ----
(***************************************************************************)
(* Model of the classification engine of src/脚本3号.py: the catalog       *)
(* (GarbageKnowledgeBase), the rule evaluator (RuleEngine) and the image   *)
(* heuristic (SimpleImageAnalyzer.predict_from_image).                     *)
(*                                                                         *)
(* Encoding.  A Python str is a sequence of Unicode code points, so that   *)
(* "x in y" is contiguous-subsequence search and str.lower() is a map on   *)
(* code points.  A Python float is an exact rational <<numerator,          *)
(* denominator>> in lowest terms.  A dict (insertion ordered) is a         *)
(* sequence of <<key, value>> pairs in insertion order.  A call ends       *)
(* either with [status |-> "ok", value |-> v] or with                      *)
(* [status |-> "raise", exc |-> name of the exception class].              *)
(***************************************************************************)
EXTENDS Integers, Sequences, FiniteSets, TLC

VARIABLES items, keyword_index, rules, model_config, request, op, result,
          threads, first_combined, database, today, server, config_class

vars == <<items, keyword_index, rules, model_config, request, op, result,
          threads, first_combined, database, today, server, config_class>>

\* What lies outside the classification engine: the database connection, the
\* calendar day, the HTTP server and the ConfigManager class.
outside == <<database, today, server, config_class>>

----------------------------------------------------------------------------
(* Exact rational arithmetic standing for Python float arithmetic.         *)

RECURSIVE GCD(_, _)
GCD(a, b) == IF b = 0 THEN a ELSE GCD(b, a % b)

Rat(n, d) == LET g == GCD(n, d) IN <<n \div g, d \div g>>

RZero == Rat(0, 1)

ROne == Rat(1, 1)

RAdd(x, y) == Rat(x[1] * y[2] + y[1] * x[2], x[2] * y[2])

RMul(x, y) == Rat(x[1] * y[1], x[2] * y[2])

RDiv(x, y) == Rat(x[1] * y[2], x[2] * y[1])

RLt(x, y) == x[1] * y[2] < y[1] * x[2]

RLe(x, y) == x[1] * y[2] <= y[1] * x[2]

RECURSIVE RSum(_)
RSum(s) == IF s = <<>> THEN RZero ELSE RAdd(Head(s), RSum(Tail(s)))

----------------------------------------------------------------------------
(* Python str operations on code-point sequences.                          *)

\* str.lower() on one code point: A..Z map to a..z, CJK and the others used
\* here have no case.
LowerChar(c) == IF c >= 65 /\ c <= 90 THEN c + 32 ELSE c

Lower(s) == [i \in 1..Len(s) |-> LowerChar(s[i])]

\* "a in b" for strings: a occurs in b as a contiguous substring (the empty
\* string occurs in every string).
In(a, b) ==
  \E k \in 0..(Len(b) - Len(a)) : \A i \in 1..Len(a) : b[k + i] = a[i]

\* bool(s) of a string: the empty string is falsy.
Truthy(s) == Len(s) > 0

----------------------------------------------------------------------------
(* dict / defaultdict(float) operations on insertion-ordered pair lists.   *)

Values(d) == [i \in 1..Len(d) |-> d[i][2]]

HasKey(d, k) == \E i \in 1..Len(d) : d[i][1] = k

\* d[k] on an existing key, d.get(k, 0) otherwise.
Get(d, k) ==
  IF HasKey(d, k) THEN d[CHOOSE i \in 1..Len(d) : d[i][1] = k][2] ELSE RZero

\* d[k] = v: an existing key keeps its position, a new key goes last.
Put(d, k, v) ==
  IF HasKey(d, k)
    THEN [i \in 1..Len(d) |-> IF d[i][1] = k THEN <<k, v>> ELSE d[i]]
    ELSE Append(d, <<k, v>>)

\* d[k] += v on a defaultdict(float): a missing key is created with 0.0.
AddTo(d, k, v) == Put(d, k, RAdd(Get(d, k), v))

\* Mutant of SortedDesc: the entries are returned unsorted.
SortedDesc_Unsorted(d) == d

\* Mutant of InsertDesc: an entry goes before the entries of equal value.
RECURSIVE InsertDesc_Unstable(_, _)
InsertDesc_Unstable(sorted, e) ==
  IF sorted = <<>> THEN <<e>>
  ELSE IF RLe(Head(sorted)[2], e[2]) THEN <<e>> \o sorted
  ELSE <<Head(sorted)>> \o InsertDesc_Unstable(Tail(sorted), e)

\* sorted(d.items(), key=lambda x: x[1], reverse=True): stable, so entries of
\* equal value keep their relative order.
RECURSIVE InsertDesc(_, _)
InsertDesc(sorted, e) ==
  IF sorted = <<>> THEN <<e>>
  ELSE IF RLt(Head(sorted)[2], e[2]) THEN <<e>> \o sorted
  ELSE <<Head(sorted)>> \o InsertDesc(Tail(sorted), e)

RECURSIVE SortedDesc(_)
SortedDesc(d) ==
  IF d = <<>> THEN <<>>
  ELSE InsertDesc(SortedDesc(SubSeq(d, 1, Len(d) - 1)), d[Len(d)])

Ok(v) == [status |-> "ok", value |-> v]

Raise(e) == [status |-> "raise", exc |-> e]

----------------------------------------------------------------------------
(* class GarbageCategory(Enum), in declaration order.                      *)

GarbageCategory == <<"RECYCLABLE", "HAZARDOUS", "KITCHEN", "OTHER">>

Categories == {GarbageCategory[i] : i \in 1..Len(GarbageCategory)}

\* @dataclass class GarbageItem: eq=True without frozen=True sets __hash__ to
\* None, so a GarbageItem cannot be a dict key.
GarbageItemHashable == FALSE

\* _load_default_data: the 16 built-in items.  disposal_method and tips are
\* read by no classification operation and are left out.
DefaultItems ==
  <<
    \* 塑料瓶: 塑料制品，常见于饮料包装; keywords 塑料 瓶子 饮料瓶 矿泉水瓶
    [ name |-> <<22609, 26009, 29942>>,
      category |-> "RECYCLABLE",
      description |-> <<22609, 26009, 21046, 21697, 65292, 24120, 35265, 20110, 39278, 26009, 21253, 35013>>,
      keywords |-> << <<22609, 26009>>, <<29942, 23376>>, <<39278, 26009, 29942>>, <<30719, 27849, 27700, 29942>> >> ],
    \* 易拉罐: 金属制品，常见于饮料包装; keywords 易拉罐 铝罐 金属 罐头
    [ name |-> <<26131, 25289, 32592>>,
      category |-> "RECYCLABLE",
      description |-> <<37329, 23646, 21046, 21697, 65292, 24120, 35265, 20110, 39278, 26009, 21253, 35013>>,
      keywords |-> << <<26131, 25289, 32592>>, <<38109, 32592>>, <<37329, 23646>>, <<32592, 22836>> >> ],
    \* 报纸: 纸制品，可回收利用; keywords 报纸 纸张 纸制品 废纸
    [ name |-> <<25253, 32440>>,
      category |-> "RECYCLABLE",
      description |-> <<32440, 21046, 21697, 65292, 21487, 22238, 25910, 21033, 29992>>,
      keywords |-> << <<25253, 32440>>, <<32440, 24352>>, <<32440, 21046, 21697>>, <<24223, 32440>> >> ],
    \* 玻璃瓶: 玻璃制品，可回收利用; keywords 玻璃 瓶子 玻璃瓶 酒瓶
    [ name |-> <<29627, 29827, 29942>>,
      category |-> "RECYCLABLE",
      description |-> <<29627, 29827, 21046, 21697, 65292, 21487, 22238, 25910, 21033, 29992>>,
      keywords |-> << <<29627, 29827>>, <<29942, 23376>>, <<29627, 29827, 29942>>, <<37202, 29942>> >> ],
    \* 电池: 含重金属，对环境有害; keywords 电池 干电池 充电电池 锂电池
    [ name |-> <<30005, 27744>>,
      category |-> "HAZARDOUS",
      description |-> <<21547, 37325, 37329, 23646, 65292, 23545, 29615, 22659, 26377, 23475>>,
      keywords |-> << <<30005, 27744>>, <<24178, 30005, 27744>>, <<20805, 30005, 30005, 27744>>, <<38146, 30005, 27744>> >> ],
    \* 过期药品: 化学物质，可能污染环境; keywords 药品 过期药 西药 中药
    [ name |-> <<36807, 26399, 33647, 21697>>,
      category |-> "HAZARDOUS",
      description |-> <<21270, 23398, 29289, 36136, 65292, 21487, 33021, 27745, 26579, 29615, 22659>>,
      keywords |-> << <<33647, 21697>>, <<36807, 26399, 33647>>, <<35199, 33647>>, <<20013, 33647>> >> ],
    \* 灯管: 含汞，有害物质; keywords 灯管 日光灯 节能灯 灯泡
    [ name |-> <<28783, 31649>>,
      category |-> "HAZARDOUS",
      description |-> <<21547, 27742, 65292, 26377, 23475, 29289, 36136>>,
      keywords |-> << <<28783, 31649>>, <<26085, 20809, 28783>>, <<33410, 33021, 28783>>, <<28783, 27873>> >> ],
    \* 油漆桶: 化学物质，有害环境; keywords 油漆 涂料 油漆桶 颜料
    [ name |-> <<27833, 28422, 26742>>,
      category |-> "HAZARDOUS",
      description |-> <<21270, 23398, 29289, 36136, 65292, 26377, 23475, 29615, 22659>>,
      keywords |-> << <<27833, 28422>>, <<28034, 26009>>, <<27833, 28422, 26742>>, <<39068, 26009>> >> ],
    \* 剩饭剩菜: 食物残渣，易腐烂; keywords 剩饭 剩菜 饭菜 食物残渣
    [ name |-> <<21097, 39277, 21097, 33756>>,
      category |-> "KITCHEN",
      description |-> <<39135, 29289, 27531, 28195, 65292, 26131, 33104, 28866>>,
      keywords |-> << <<21097, 39277>>, <<21097, 33756>>, <<39277, 33756>>, <<39135, 29289, 27531, 28195>> >> ],
    \* 果皮: 水果残余，有机质; keywords 果皮 水果皮 香蕉皮 苹果核
    [ name |-> <<26524, 30382>>,
      category |-> "KITCHEN",
      description |-> <<27700, 26524, 27531, 20313, 65292, 26377, 26426, 36136>>,
      keywords |-> << <<26524, 30382>>, <<27700, 26524, 30382>>, <<39321, 34121, 30382>>, <<33529, 26524, 26680>> >> ],
    \* 茶叶渣: 植物残余，有机质; keywords 茶叶 茶渣 茶包 茶叶渣
    [ name |-> <<33590, 21494, 28195>>,
      category |-> "KITCHEN",
      description |-> <<26893, 29289, 27531, 20313, 65292, 26377, 26426, 36136>>,
      keywords |-> << <<33590, 21494>>, <<33590, 28195>>, <<33590, 21253>>, <<33590, 21494, 28195>> >> ],
    \* 蛋壳: 食物残余，有机质; keywords 蛋壳 鸡蛋壳 鸭蛋壳
    [ name |-> <<34507, 22771>>,
      category |-> "KITCHEN",
      description |-> <<39135, 29289, 27531, 20313, 65292, 26377, 26426, 36136>>,
      keywords |-> << <<34507, 22771>>, <<40481, 34507, 22771>>, <<40493, 34507, 22771>> >> ],
    \* 卫生纸: 受污染纸张，不可回收; keywords 卫生纸 纸巾 厕纸 面巾纸
    [ name |-> <<21355, 29983, 32440>>,
      category |-> "OTHER",
      description |-> <<21463, 27745, 26579, 32440, 24352, 65292, 19981, 21487, 22238, 25910>>,
      keywords |-> << <<21355, 29983, 32440>>, <<32440, 24062>>, <<21397, 32440>>, <<38754, 24062, 32440>> >> ],
    \* 陶瓷碎片: 不可回收材料; keywords 陶瓷 瓷器 碎片 碗碟
    [ name |-> <<38518, 29943, 30862, 29255>>,
      category |-> "OTHER",
      description |-> <<19981, 21487, 22238, 25910, 26448, 26009>>,
      keywords |-> << <<38518, 29943>>, <<29943, 22120>>, <<30862, 29255>>, <<30871, 30879>> >> ],
    \* 烟头: 烟草残余，有害物质; keywords 烟头 香烟 烟蒂 烟灰
    [ name |-> <<28895, 22836>>,
      category |-> "OTHER",
      description |-> <<28895, 33609, 27531, 20313, 65292, 26377, 23475, 29289, 36136>>,
      keywords |-> << <<28895, 22836>>, <<39321, 28895>>, <<28895, 33922>>, <<28895, 28784>> >> ],
    \* 塑料袋: 受污染塑料，不可回收; keywords 塑料袋 塑料膜 包装袋
    [ name |-> <<22609, 26009, 34955>>,
      category |-> "OTHER",
      description |-> <<21463, 27745, 26579, 22609, 26009, 65292, 19981, 21487, 22238, 25910>>,
      keywords |-> << <<22609, 26009, 34955>>, <<22609, 26009, 33180>>, <<21253, 35013, 34955>> >> ]
  >>

\* Mutant of ModelConfig: the two weights sum to more than 1.
ModelConfig_Heavy == [rules_weight |-> Rat(7, 10), keyword_weight |-> Rat(7, 10)]

\* ConfigManager._initialize: model_config (the two weights the engine reads).
ModelConfig == [rules_weight |-> Rat(7, 10), keyword_weight |-> Rat(3, 10)]

\* The (keyword, item position) pairs in the order in which the two nested
\* loops of _build_index visit them.
RECURSIVE KeywordVisits(_, _)
KeywordVisits(its, n) ==
  IF n = 0 THEN <<>>
  ELSE KeywordVisits(its, n - 1)
         \o [k \in 1..Len(its[n].keywords) |-> <<its[n].keywords[k], n>>]

\* _build_index: keyword -> list of items (by position in items), keywords in
\* first-insertion order; an item is appended once per occurrence of a keyword.
BuildIndex(its) ==
  LET visits == KeywordVisits(its, Len(its))
      first == {p \in 1..Len(visits) : \A q \in 1..(p - 1) : visits[q][1] # visits[p][1]}
      \* the position in visits of the n-th distinct keyword
      nth(n) == CHOOSE p \in first : Cardinality({q \in first : q <= p}) = n
      bucket(keyword) ==
        LET at == SelectSeq(visits, LAMBDA v : v[1] = keyword)
        IN [j \in 1..Len(at) |-> at[j][2]]
  IN [n \in 1..Cardinality(first) |-> <<visits[nth(n)][1], bucket(visits[nth(n)][1])>>]

----------------------------------------------------------------------------
(* GarbageKnowledgeBase                                                    *)

\* Mutant of SearchFrom: only "query in name" is tested.
RECURSIVE SearchFrom_OneWay(_, _)
SearchFrom_OneWay(name_lower, i) ==
  IF i > Len(items) THEN <<>>
  ELSE IF In(name_lower, Lower(items[i].name)) THEN <<i>>
  ELSE SearchFrom_OneWay(name_lower, i + 1)

\* search_by_name: the first item, in catalog order, whose lowercased name
\* contains the lowercased query or is contained in it; None (<<>>) otherwise.
RECURSIVE SearchFrom(_, _)
SearchFrom(name_lower, i) ==
  IF i > Len(items) THEN <<>>
  ELSE IF In(name_lower, Lower(items[i].name)) \/ In(Lower(items[i].name), name_lower)
    THEN <<i>>
  ELSE SearchFrom(name_lower, i + 1)

SearchByName(name) == Ok(SearchFrom(Lower(name), 1))

\* self.keyword_index[keyword] on a defaultdict(list): the bucket, and the
\* index afterwards (reading a missing key inserts it with an empty list).
IndexGet(index, keyword) ==
  IF HasKey(index, keyword)
    THEN [value |-> index[CHOOSE j \in 1..Len(index) : index[j][1] = keyword][2],
          index |-> index]
    ELSE [value |-> <<>>, index |-> Append(index, <<keyword, <<>>>>)]

\* Mutant of FuzzyVisits: only "keyword_lower in kw" is tested.
FuzzyVisits_OneWay(index, keyword_lower) ==
  LET visited == {v \in UNION {{<<n, j>> : j \in 1..Len(index[n][2])} : n \in 1..Len(index)} :
                    In(keyword_lower, index[v[1]][1])}
      earlier(v, w) == v[1] < w[1] \/ (v[1] = w[1] /\ v[2] < w[2])
      nth(k) == CHOOSE v \in visited :
                  Cardinality({w \in visited : earlier(w, v)}) = k - 1
  IN [k \in 1..Cardinality(visited) |-> index[nth(k)[1]][2][nth(k)[2]]]

\* The items the fuzzy loop of search_by_keyword visits, in visiting order:
\* for kw, items in keyword_index.items(): if keyword_lower in kw or kw in
\* keyword_lower: for item in items.
FuzzyVisits(index, keyword_lower) ==
  LET visited == {v \in UNION {{<<n, j>> : j \in 1..Len(index[n][2])} : n \in 1..Len(index)} :
                    \/ In(keyword_lower, index[v[1]][1])
                    \/ In(index[v[1]][1], keyword_lower)}
      earlier(v, w) == v[1] < w[1] \/ (v[1] = w[1] /\ v[2] < w[2])
      nth(k) == CHOOSE v \in visited :
                  Cardinality({w \in visited : earlier(w, v)}) = k - 1
  IN [k \in 1..Cardinality(visited) |-> index[nth(k)[1]][2][nth(k)[2]]]

\* results after the fuzzy loop: a visited item is appended unless
\* "item in results", which compares dataclass instances field by field.
FuzzyMatches(results, index, keyword_lower) ==
  LET visits == FuzzyVisits(index, keyword_lower)
      fresh(k) ==
        /\ \A r \in 1..Len(results) : items[results[r]] # items[visits[k]]
        /\ \A q \in 1..(k - 1) : items[visits[q]] # items[visits[k]]
      kept == SelectSeq([k \in 1..Len(visits) |-> k], fresh)
  IN results \o [k \in 1..Len(kept) |-> visits[kept[k]]]

\* Mutant of DirectMatch: the direct lookup is not guarded by
\* "if keyword_lower in self.keyword_index".
DirectMatch_Unguarded(keyword_lower) == IndexGet(keyword_index, keyword_lower)

\* The direct match of search_by_keyword: the items found, and keyword_index
\* as the lookup leaves it.
DirectMatch(keyword_lower) ==
  IF HasKey(keyword_index, keyword_lower)
    THEN IndexGet(keyword_index, keyword_lower)
    ELSE [value |-> <<>>, index |-> keyword_index]

\* search_by_keyword: the list of item positions, and keyword_index as the
\* call leaves it.
SearchByKeyword(keyword) ==
  LET keyword_lower == Lower(keyword)
      direct == DirectMatch(keyword_lower)
  IN [result |-> Ok(FuzzyMatches(direct.value, direct.index, keyword_lower)),
      keyword_index |-> direct.index]

\* Mutant of ExactMatches: the exact-match loop never returns.
ExactMatches_NoShortCircuit(text_lower) == {}

\* The exact-match loop of classify_by_text: positions of the items whose
\* lowercased name equals text_lower.
ExactMatches(text_lower) ==
  {i \in 1..Len(items) : Lower(items[i].name) = text_lower}

\* keyword_matches = sum(1 for kw in item.keywords if kw in text_lower)
KeywordMatches(item, text_lower) ==
  Cardinality({k \in 1..Len(item.keywords) : In(item.keywords[k], text_lower)})

\* The score one item gets in the matching loop of classify_by_text.
ItemScore(item, text_lower) ==
  LET name_part == IF In(text_lower, Lower(item.name)) THEN Rat(4, 10) ELSE RZero
      keyword_matches == KeywordMatches(item, text_lower)
      keyword_part == IF keyword_matches > 0
                        THEN RMul(Rat(3, 10), Rat(keyword_matches, Len(item.keywords)))
                        ELSE RZero
      description_part == IF In(text_lower, Lower(item.description))
                            THEN Rat(2, 10) ELSE RZero
  IN RAdd(RAdd(name_part, keyword_part), description_part)

\* The matching loop: matched_items[item] = score for every item of positive
\* score, in catalog order.  Storing under an unhashable key raises TypeError.
RECURSIVE MatchLoop(_, _, _)
MatchLoop(matched_items, text_lower, i) ==
  IF i > Len(items) THEN Ok(matched_items)
  ELSE LET score == ItemScore(items[i], text_lower) IN
       IF RLt(RZero, score)
         THEN IF GarbageItemHashable
                THEN MatchLoop(Append(matched_items, <<i, score>>), text_lower, i + 1)
                ELSE Raise("TypeError")
         ELSE MatchLoop(matched_items, text_lower, i + 1)

\* sorted_results[:5]
FirstFive(s) == SubSeq(s, 1, IF Len(s) < 5 THEN Len(s) ELSE 5)

\* classify_by_text: a list of <<item position, score>>.
ClassifyByText(text) ==
  LET text_lower == Lower(text)
      exact == ExactMatches(text_lower)
  IN IF exact # {}
       THEN Ok(<< <<CHOOSE i \in exact : \A j \in exact : i <= j, ROne>> >>)
       ELSE LET matched == MatchLoop(<<>>, text_lower, 1) IN
            IF matched.status = "raise" THEN matched
            ELSE Ok(FirstFive(SortedDesc(matched.value)))

----------------------------------------------------------------------------
(* RuleEngine                                                              *)

material_rules ==
  <<
    \* 塑料
    [ trigger |-> <<22609, 26009>>, weight |-> Rat(3, 10), kind |-> "categories", categories |-> << "RECYCLABLE", "OTHER" >> ],
    \* 金属
    [ trigger |-> <<37329, 23646>>, weight |-> Rat(4, 10), kind |-> "category", category |-> "RECYCLABLE" ],
    \* 纸张
    [ trigger |-> <<32440, 24352>>, weight |-> Rat(3, 10), kind |-> "categories", categories |-> << "RECYCLABLE", "OTHER" >> ],
    \* 玻璃
    [ trigger |-> <<29627, 29827>>, weight |-> Rat(4, 10), kind |-> "category", category |-> "RECYCLABLE" ],
    \* 食物
    [ trigger |-> <<39135, 29289>>, weight |-> Rat(5, 10), kind |-> "category", category |-> "KITCHEN" ],
    \* 化学
    [ trigger |-> <<21270, 23398>>, weight |-> Rat(6, 10), kind |-> "category", category |-> "HAZARDOUS" ],
    \* 纺织品
    [ trigger |-> <<32442, 32455, 21697>>, weight |-> Rat(2, 10), kind |-> "category", category |-> "OTHER" ]
  >>

usage_rules ==
  <<
    \* 包装
    [ trigger |-> <<21253, 35013>>, weight |-> Rat(3, 10), kind |-> "categories", categories |-> << "RECYCLABLE", "OTHER" >> ],
    \* 容器
    [ trigger |-> <<23481, 22120>>, weight |-> Rat(4, 10), kind |-> "categories", categories |-> << "RECYCLABLE", "OTHER" >> ],
    \* 电器
    [ trigger |-> <<30005, 22120>>, weight |-> Rat(5, 10), kind |-> "category", category |-> "HAZARDOUS" ],
    \* 餐具
    [ trigger |-> <<39184, 20855>>, weight |-> Rat(3, 10), kind |-> "category", category |-> "OTHER" ],
    \* 卫生
    [ trigger |-> <<21355, 29983>>, weight |-> Rat(4, 10), kind |-> "category", category |-> "OTHER" ]
  >>

state_rules ==
  <<
    \* 潮湿
    [ trigger |-> <<28526, 28287>>, weight |-> Rat(5, 10), kind |-> "category", category |-> "OTHER" ],
    \* 干燥: effect 可回收性增加
    [ trigger |-> <<24178, 29157>>, weight |-> Rat(2, 10), kind |-> "effect", effect |-> <<21487, 22238, 25910, 24615, 22686, 21152>> ],
    \* 破碎: effect 可能变为其他垃圾
    [ trigger |-> <<30772, 30862>>, weight |-> Rat(6, 10), kind |-> "effect", effect |-> <<21487, 33021, 21464, 20026, 20854, 20182, 22403, 22334>> ],
    \* 污染
    [ trigger |-> <<27745, 26579>>, weight |-> Rat(7, 10), kind |-> "category", category |-> "OTHER" ],
    \* 清洁: effect 可回收性增加
    [ trigger |-> <<28165, 27905>>, weight |-> Rat(1, 10), kind |-> "effect", effect |-> <<21487, 22238, 25910, 24615, 22686, 21152>> ]
  >>

\* _define_rules
DefineRules ==
  [material_rules |-> material_rules, usage_rules |-> usage_rules,
   state_rules |-> state_rules]

\* scores[category] += weight / len(categories) for each category of the set.
RECURSIVE SplitOver(_, _, _)
SplitOver(scores, categories, share) ==
  IF categories = <<>> THEN scores
  ELSE SplitOver(AddTo(scores, Head(categories), share), Tail(categories), share)

\* Mutant of ApplyCategoryRule: every category of a category set receives the
\* full weight.
ApplyCategoryRule_NoSplit(scores, rule, text_lower) ==
  IF ~In(rule.trigger, text_lower) THEN scores
  ELSE IF rule.kind = "category" THEN AddTo(scores, rule.category, rule.weight)
  ELSE IF rule.kind = "categories"
    THEN SplitOver(scores, rule.categories, rule.weight)
  ELSE scores

\* One material or usage rule: the body of the loops at lines 417-432.
ApplyCategoryRule(scores, rule, text_lower) ==
  IF ~In(rule.trigger, text_lower) THEN scores
  ELSE IF rule.kind = "category" THEN AddTo(scores, rule.category, rule.weight)
  ELSE IF rule.kind = "categories"
    THEN SplitOver(scores, rule.categories,
                   RDiv(rule.weight, Rat(Len(rule.categories), 1)))
  ELSE scores

RECURSIVE ApplyCategoryRules(_, _, _)
ApplyCategoryRules(scores, table, text_lower) ==
  IF table = <<>> THEN scores
  ELSE ApplyCategoryRules(ApplyCategoryRule(scores, Head(table), text_lower),
                          Tail(table), text_lower)

\* Mutant of IncreaseLoop: the bonus is added whether or not RECYCLABLE holds
\* a score.
IncreaseLoop_Creates(scores) == AddTo(scores, "RECYCLABLE", Rat(1, 10))

\* for category in scores: if category == RECYCLABLE: scores[category] += 0.1
IncreaseLoop(scores) ==
  [i \in 1..Len(scores) |->
     IF scores[i][1] = "RECYCLABLE"
       THEN <<scores[i][1], RAdd(scores[i][2], Rat(1, 10))>>
       ELSE scores[i]]

\* for category in scores: if category != OTHER: scores[category] *= 0.8;
\* scores[OTHER] += 0.2.  The loop iterates over the dict it writes to: the
\* dict iterator raises RuntimeError at its next step once the dict has
\* another size than when the loop started (used).
RECURSIVE DampenLoop(_, _, _)
DampenLoop(scores, pos, used) ==
  IF Len(scores) # used THEN Raise("RuntimeError")
  ELSE IF pos > Len(scores) THEN Ok(scores)
  ELSE LET category == scores[pos][1] IN
       IF category # "OTHER"
         THEN DampenLoop(
                AddTo(Put(scores, category, RMul(scores[pos][2], Rat(8, 10))),
                      "OTHER", Rat(2, 10)),
                pos + 1, used)
         ELSE DampenLoop(scores, pos + 1, used)

\* The substrings the effect text is tested for.
Increase == <<22686, 21152>>      \* 增加
Decrease == <<20943, 23569>>      \* 减少
Become == <<21464, 20026>>        \* 变为

\* One state rule: the body of the loop at lines 435-449.
ApplyStateRule(scores, rule, text_lower) ==
  IF ~In(rule.trigger, text_lower) THEN Ok(scores)
  ELSE IF rule.kind = "category"
    THEN Ok(AddTo(scores, rule.category, rule.weight))
  ELSE IF rule.kind = "effect"
    THEN IF In(Increase, rule.effect) THEN Ok(IncreaseLoop(scores))
         ELSE IF In(Decrease, rule.effect) \/ In(Become, rule.effect)
           THEN DampenLoop(scores, 1, Len(scores))
         ELSE Ok(scores)
  ELSE Ok(scores)

RECURSIVE ApplyStateRules(_, _, _)
ApplyStateRules(scores, table, text_lower) ==
  IF table = <<>> THEN Ok(scores)
  ELSE LET r == ApplyStateRule(scores, Head(table), text_lower) IN
       IF r.status = "raise" THEN r
       ELSE ApplyStateRules(r.value, Tail(table), text_lower)

\* total = sum(scores.values()); if total > 0: scores[c] /= total
Normalize(scores) ==
  LET total == RSum(Values(scores)) IN
  IF RLt(RZero, total)
    THEN [i \in 1..Len(scores) |-> <<scores[i][1], RDiv(scores[i][2], total)>>]
    ELSE scores

\* scores after the material loop and the usage loop of apply_rules.
MaterialUsageScores(text_lower) ==
  ApplyCategoryRules(ApplyCategoryRules(<<>>, rules.material_rules, text_lower),
                     rules.usage_rules, text_lower)

\* apply_rules: the score dict, or the exception the state loop raised.
ApplyRules(text_description) ==
  LET text_lower == Lower(text_description)
      state == ApplyStateRules(MaterialUsageScores(text_lower), rules.state_rules,
                               text_lower)
  IN IF state.status = "raise" THEN state ELSE Ok(Normalize(state.value))

\* The loop over keyword_results: combined[item.category] += confidence * w.
RECURSIVE AddKeywordScores(_, _)
AddKeywordScores(combined_scores, keyword_results) ==
  IF keyword_results = <<>> THEN combined_scores
  ELSE AddKeywordScores(
         AddTo(combined_scores, items[Head(keyword_results)[1]].category,
               RMul(Head(keyword_results)[2], model_config.keyword_weight)),
         Tail(keyword_results))

\* The loop over rule_scores: combined[category] += score * rules_weight.
RECURSIVE AddRuleScores(_, _)
AddRuleScores(combined_scores, rule_scores) ==
  IF rule_scores = <<>> THEN combined_scores
  ELSE AddRuleScores(
         AddTo(combined_scores, Head(rule_scores)[1],
               RMul(Head(rule_scores)[2], model_config.rules_weight)),
         Tail(rule_scores))

\* Mutant of MergeScores: combined_scores is kept from the combine call that
\* returned last instead of starting empty.
MergeScores_Accumulating(rule_scores, keyword_results) ==
  SortedDesc(AddKeywordScores(
               AddRuleScores(IF op = "combine_with_keyword_search" /\ result.status = "ok"
                               THEN result.value ELSE <<>>,
                             rule_scores),
               keyword_results))

\* Lines 468-480: combined_scores starts empty, receives the rule scores and
\* the keyword scores, and is sorted.
MergeScores(rule_scores, keyword_results) ==
  SortedDesc(AddKeywordScores(AddRuleScores(<<>>, rule_scores), keyword_results))

\* Mutant of CombineWithKeywordSearch: the merged scores are divided by their
\* total before they are ranked.
CombineWithKeywordSearch_Renormalized(text) ==
  LET rule_scores == ApplyRules(text) IN
  IF rule_scores.status = "raise" THEN rule_scores
  ELSE LET keyword_results == ClassifyByText(text) IN
       IF keyword_results.status = "raise" THEN keyword_results
       ELSE Ok(SortedDesc(Normalize(
                 AddKeywordScores(AddRuleScores(<<>>, rule_scores.value),
                                  keyword_results.value))))

\* combine_with_keyword_search: the ranked list of <<category, score>>; an
\* exception of apply_rules or classify_by_text propagates.
CombineWithKeywordSearch(text) ==
  LET rule_scores == ApplyRules(text) IN
  IF rule_scores.status = "raise" THEN rule_scores
  ELSE LET keyword_results == ClassifyByText(text) IN
       IF keyword_results.status = "raise" THEN keyword_results
       ELSE Ok(MergeScores(rule_scores.value, keyword_results.value))

----------------------------------------------------------------------------
(* SimpleImageAnalyzer                                                     *)

\* _analyze_colors: brightness = (0.299*avg_r + 0.587*avg_g + 0.114*avg_b) / 255
Brightness(color) == Rat(299 * color[1] + 587 * color[2] + 114 * color[3], 255000)

\* sum(pixels[lo..hi]), by halves.
RECURSIVE SumRange(_, _, _)
SumRange(pixels, lo, hi) ==
  IF lo > hi THEN 0
  ELSE IF lo = hi THEN pixels[lo]
  ELSE LET mid == (lo + hi) \div 2
       IN SumRange(pixels, lo, mid) + SumRange(pixels, mid + 1, hi)

\* bits.append('1' if pixel > avg else '0') with avg = sum(pixels) / len(pixels)
HashBits(pixels) ==
  LET total == SumRange(pixels, 1, Len(pixels)) IN
  [i \in 1..Len(pixels) |-> IF pixels[i] * Len(pixels) > total THEN 1 ELSE 0]

HexDigits ==
  <<"0", "1", "2", "3", "4", "5", "6", "7", "8", "9", "a", "b", "c", "d", "e", "f">>

\* Mutant of HexOfNibble: hex(...) without the [2:] slice keeps the "0x".
HexOfNibble_WithPrefix(nibble) ==
  <<"0", "x", HexDigits[8 * nibble[1] + 4 * nibble[2] + 2 * nibble[3] + nibble[4] + 1]>>

\* hex(int(''.join(nibble), 2))[2:]: the characters one nibble adds.
HexOfNibble(nibble) ==
  <<HexDigits[8 * nibble[1] + 4 * nibble[2] + 2 * nibble[3] + nibble[4] + 1]>>

\* for i in range(0, 64, 4): hash_hex += hex(int(''.join(bits[i:i+4]), 2))[2:]
RECURSIVE HashHex(_, _)
HashHex(bits, n) ==
  IF n = 0 THEN <<>>
  ELSE HashHex(bits, n - 1) \o HexOfNibble(SubSeq(bits, 4 * n - 3, 4 * n))

\* _generate_image_hash, given the 64 samples of the 8x8 grayscale thumbnail.
GenerateImageHash(pixels) == Ok(HashHex(HashBits(pixels), 16))

\* The keyword groups a text hint is tested for, in the order of the elif chain.
HintRecyclable == << <<22609, 26009>>, <<37329, 23646>>, <<29627, 29827>> >>  \* 塑料 金属 玻璃
HintHazardous == << <<30005, 27744>>, <<33647, 21697>>, <<27833, 28422>> >>   \* 电池 药品 油漆
HintKitchen == << <<39135, 29289>>, <<26524, 30382>>, <<21097, 39277>> >>     \* 食物 果皮 剩饭

\* any(kw in text_lower for kw in group)
AnyIn(group, text_lower) == \E k \in 1..Len(group) : In(group[k], text_lower)

\* Mutant of HintGiven: "if text_hint is not None:".
HintGiven_NotNone(text_hint) == text_hint # <<>>

\* "if text_hint:" on an Optional[str] (<<>> is None, <<s>> the string s).
HintGiven(text_hint) == text_hint # <<>> /\ Truthy(text_hint[1])

\* The four image rules of lines 635-649, in source order.
ImageRules(analysis) ==
  LET brightness == analysis.brightness
      contrast == analysis.contrast
      dominant_r == analysis.color_dominant[1]
      s1 == IF RLt(Rat(6, 10), brightness) /\ RLt(Rat(3, 10), contrast)
              THEN AddTo(<<>>, "RECYCLABLE", Rat(4, 10)) ELSE <<>>
      s2 == IF RLt(brightness, Rat(4, 10)) /\ RLt(contrast, Rat(2, 10))
              THEN AddTo(s1, "KITCHEN", Rat(3, 10)) ELSE s1
      s3 == IF dominant_r > 150 /\ RLt(brightness, Rat(5, 10))
              THEN AddTo(s2, "HAZARDOUS", Rat(3, 10)) ELSE s2
  IN IF RLe(Rat(3, 10), brightness) /\ RLe(brightness, Rat(7, 10))
        /\ RLt(contrast, Rat(25, 100))
       THEN AddTo(s3, "OTHER", Rat(3, 10)) ELSE s3

\* Mutant of ApplyHint: every group with a keyword in the hint is credited.
ApplyHint_EveryGroup(scores, text_hint) ==
  IF ~HintGiven(text_hint) THEN scores
  ELSE LET text_lower == Lower(text_hint[1])
           s1 == IF AnyIn(HintRecyclable, text_lower)
                   THEN AddTo(scores, "RECYCLABLE", Rat(2, 10)) ELSE scores
           s2 == IF AnyIn(HintHazardous, text_lower)
                   THEN AddTo(s1, "HAZARDOUS", Rat(2, 10)) ELSE s1
       IN IF AnyIn(HintKitchen, text_lower)
            THEN AddTo(s2, "KITCHEN", Rat(2, 10)) ELSE s2

\* The text hint block of lines 652-660.
ApplyHint(scores, text_hint) ==
  IF ~HintGiven(text_hint) THEN scores
  ELSE LET text_lower == Lower(text_hint[1]) IN
       IF AnyIn(HintRecyclable, text_lower) THEN AddTo(scores, "RECYCLABLE", Rat(2, 10))
       ELSE IF AnyIn(HintHazardous, text_lower) THEN AddTo(scores, "HAZARDOUS", Rat(2, 10))
       ELSE IF AnyIn(HintKitchen, text_lower) THEN AddTo(scores, "KITCHEN", Rat(2, 10))
       ELSE scores

\* Mutant of BaseScores: the base score 0.1 is added to every category, the
\* ones that already hold a score included.
BaseScores_AddedToAll(scores, i) ==
  LET missing == SelectSeq(GarbageCategory, LAMBDA c : ~HasKey(scores, c))
  IN [k \in 1..Len(scores) |-> <<scores[k][1], RAdd(scores[k][2], Rat(1, 10))>>]
       \o [k \in 1..Len(missing) |-> <<missing[k], Rat(1, 10)>>]

\* Mutant of BaseScores: no base score is given.
BaseScores_NoFloor(scores, i) == scores

\* for category in GarbageCategory: if category not in scores: scores[category] = 0.1
RECURSIVE BaseScores(_, _)
BaseScores(scores, i) ==
  IF i > Len(GarbageCategory) THEN scores
  ELSE IF HasKey(scores, GarbageCategory[i]) THEN BaseScores(scores, i + 1)
  ELSE BaseScores(Put(scores, GarbageCategory[i], Rat(1, 10)), i + 1)

\* predict_from_image, given what analyze_image returned for the file.
PredictFromImage(analysis, text_hint) ==
  IF analysis.error
    THEN IF HintGiven(text_hint)
           THEN Ok(<< <<"OTHER", Rat(5, 10)>> >>)
           ELSE Ok(<< <<"OTHER", Rat(3, 10)>> >>)
    ELSE Ok(SortedDesc(Normalize(BaseScores(ApplyHint(ImageRules(analysis), text_hint), 1))))

----------------------------------------------------------------------------
(* Inputs                                                                  *)

\* The longest text is a concatenation of MaxWords words of Vocabulary.
MaxWords == 3

\* The longest text hint is a concatenation of MaxHintWords words.
MaxHintWords == 2

Vocabulary ==
  { <<37329, 23646>>,      \* 金属  material, RECYCLABLE
    <<39135, 29289>>,      \* 食物  material, KITCHEN
    <<22609, 26009>>,      \* 塑料  material, RECYCLABLE and OTHER
    <<21355, 29983>>,      \* 卫生  usage, OTHER
    <<24178, 29157>>,      \* 干燥  state, effect
    <<30772, 30862>>,      \* 破碎  state, effect
    <<28165, 27905>>,      \* 清洁  state, effect
    <<29942>>,             \* 瓶
    <<21097, 39277>>,      \* 剩饭
    <<32>>,                \* a blank
    <<80>> }               \* P

HintVocabulary ==
  { <<22609, 26009>>,      \* 塑料
    <<30005, 27744>>,      \* 电池
    <<21097, 39277>>,      \* 剩饭
    <<32>> }               \* a blank

RECURSIVE Concats(_, _)
Concats(words, n) ==
  IF n = 0 THEN {<<>>}
  ELSE LET shorter == Concats(words, n - 1) IN
       shorter \cup {s \o w : s \in shorter, w \in words}

Triggers(table) == {table[i].trigger : i \in 1..Len(table)}

\* Every catalog name, every catalog keyword and every rule trigger is a
\* text of its own; further texts are concatenations of Vocabulary words.
Texts ==
  Concats(Vocabulary, MaxWords)
    \cup {DefaultItems[i].name : i \in 1..Len(DefaultItems)}
    \cup UNION {{DefaultItems[i].keywords[k] : k \in 1..Len(DefaultItems[i].keywords)} :
                 i \in 1..Len(DefaultItems)}
    \cup Triggers(material_rules) \cup Triggers(usage_rules) \cup Triggers(state_rules)
    \cup { <<26410, 30693, 29289, 21697>>,    \* 未知物品
           <<39135, 29289, 30005, 22120>> }    \* 食物电器

Hints == {<<>>} \cup {<<h>> : h \in Concats(HintVocabulary, MaxHintWords)}

\* What analyze_image can return: an error marker, or the features of an
\* image.  The channel means and the contrast are drawn from levels on both
\* sides of every threshold of predict_from_image; a contrast (standard
\* deviation of the luminance / 255, in 1/100) is kept only if an image of
\* that mean luminance can have it: stdev^2 <= 2 * mean * (1 - mean).
RedLevels == {0, 150, 151, 255}
GreenLevels == {0, 128, 255}
BlueLevels == {0, 255}
ContrastLevels == {0, 10, 20, 22, 25, 28, 30, 35}

Compatible(color, c) ==
  LET mean == (299 * color[1] + 587 * color[2] + 114 * color[3]) \div 255  \* in 1/1000
  IN c * c * 100 <= 2 * mean * (1000 - mean)

Analyses ==
  {[error |-> TRUE]}
    \cup {[error |-> FALSE, color_dominant |-> color,
           brightness |-> Brightness(color), contrast |-> Rat(c, 100)] :
             <<color, c>> \in {x \in (RedLevels \X GreenLevels \X BlueLevels) \X ContrastLevels :
                                Compatible(x[1], x[2])}}

\* 8x8 grayscale thumbnails (64 samples, row by row): every solid grey, and
\* two-tone images whose first k samples have one level and the rest another.
TwoTones == {<<0, 255>>, <<255, 0>>, <<100, 101>>, <<101, 100>>, <<0, 1>>}

Thumbnails ==
  {[i \in 1..64 |-> v] : v \in 0..255}
    \cup {[i \in 1..64 |-> IF i <= k THEN t[1] ELSE t[2]] : k \in 1..63, t \in TwoTones}

Requests ==
  {[kind |-> "text", text |-> t] : t \in Texts}
    \cup {[kind |-> "image", analysis |-> a, text_hint |-> h] : a \in Analyses, h \in Hints}
    \cup {[kind |-> "thumbnail", pixels |-> p] : p \in Thumbnails}

----------------------------------------------------------------------------
(* The engine: built once, then called.                                    *)

NoResult == Ok(<<>>)

Plastic_Bottle == <<22609, 26009, 29942>>     \* 塑料瓶

\* DatabaseManager._initialize_database on a new file: the tables are empty.
\* user_records and statistics are the tables as self.conn sees them, disk
\* what the last successful commit left for every other connection.
EmptyDatabase ==
  [user_records |-> <<>>, statistics |-> <<>>,
   disk |-> [user_records |-> <<>>, statistics |-> <<>>]]

\* The server has answered no request yet.
NoServer ==
  [response |-> [status |-> 0, page |-> "none"], files |-> <<>>, ranked |-> 0,
   requests |-> 0]

\* class ConfigManager: _instance = None; no instance exists.
NoConfig == [instance |-> <<>>, objects |-> <<>>, holders |-> <<>>, running |-> TRUE]

OutsideInit ==
  /\ database = EmptyDatabase
  /\ today = 1
  /\ server = NoServer
  /\ config_class = NoConfig

\* The threads that call into the engine, and the texts they combine.
WorkerIds == {1, 2}

SessionTexts ==
  { <<22609, 26009, 29942>>,            \* 塑料瓶
    <<21097, 39277>>,                   \* 剩饭
    <<37329, 23646, 30772, 30862>>,     \* 金属破碎
    <<26410, 30693, 29289, 21697>> }    \* 未知物品

NoCall == [name |-> "none", request |-> [kind |-> "none"]]

\* A thread that is in no call.
Idle == [pc |-> "idle", call |-> NoCall, local |-> <<>>, outcome |-> NoResult]

Init ==
  /\ items = DefaultItems
  /\ keyword_index = BuildIndex(DefaultItems)
  /\ rules = DefineRules
  /\ model_config = ModelConfig
  /\ request \in Requests
  /\ op = "none"
  /\ result = NoResult
  /\ threads = [w \in WorkerIds |-> Idle]
  /\ first_combined = [t \in SessionTexts |-> <<>>]
  /\ OutsideInit

Call(name, outcome) ==
  /\ op' = name
  /\ result' = outcome
  /\ UNCHANGED <<items, keyword_index, rules, model_config, request,
                 threads, first_combined, outside>>

apply_rules ==
  /\ request.kind = "text"
  /\ Call("apply_rules", ApplyRules(request.text))

classify_by_text ==
  /\ request.kind = "text"
  /\ Call("classify_by_text", ClassifyByText(request.text))

combine_with_keyword_search ==
  /\ request.kind = "text"
  /\ Call("combine_with_keyword_search", CombineWithKeywordSearch(request.text))

search_by_name ==
  /\ request.kind = "text"
  /\ Call("search_by_name", SearchByName(request.text))

search_by_keyword ==
  /\ request.kind = "text"
  /\ LET r == SearchByKeyword(request.text) IN
       /\ op' = "search_by_keyword"
       /\ result' = r.result
       /\ keyword_index' = r.keyword_index
       /\ UNCHANGED <<items, rules, model_config, request, threads, first_combined,
                      outside>>

predict_from_image ==
  /\ request.kind = "image"
  /\ Call("predict_from_image", PredictFromImage(request.analysis, request.text_hint))

generate_image_hash ==
  /\ request.kind = "thumbnail"
  /\ Call("generate_image_hash", GenerateImageHash(request.pixels))

Next ==
  \/ apply_rules
  \/ classify_by_text
  \/ combine_with_keyword_search
  \/ search_by_name
  \/ search_by_keyword
  \/ predict_from_image
  \/ generate_image_hash

Spec == Init /\ [][Next]_vars

----------------------------------------------------------------------------
(* Sessions: threads calling into one engine, one call after another, the  *)
(* calls of different threads interleaved at every access to the engine.   *)

Text(t) == [kind |-> "text", text |-> t]

\* The calls a thread can make.
SessionCalls ==
  {[name |-> "combine_with_keyword_search", request |-> Text(t)] : t \in SessionTexts}
    \cup {[name |-> "apply_rules", request |-> Text(<<37329, 23646, 30772, 30862>>)],   \* 金属破碎
          [name |-> "classify_by_text", request |-> Text(<<22609, 26009, 29942>>)],     \* 塑料瓶
          [name |-> "search_by_name", request |-> Text(<<30005, 27744>>)],              \* 电池
          [name |-> "search_by_keyword", request |-> Text(<<22609, 26009>>)],           \* 塑料
          [name |-> "search_by_keyword",
           request |-> Text(<<26410, 30693, 29289, 21697>>)],                           \* 未知物品
          [name |-> "predict_from_image",
           request |-> [kind |-> "image",
                        analysis |-> [error |-> FALSE,
                                      color_dominant |-> <<255, 255, 255>>,
                                      brightness |-> Brightness(<<255, 255, 255>>),
                                      contrast |-> RZero],
                        text_hint |-> << <<22609, 26009, 30005, 27744>> >>]]}           \* 塑料电池

SessionInit ==
  /\ items = DefaultItems
  /\ keyword_index = BuildIndex(DefaultItems)
  /\ rules = DefineRules
  /\ model_config = ModelConfig
  /\ request = NoCall.request
  /\ op = "none"
  /\ result = NoResult
  /\ threads = [w \in WorkerIds |-> Idle]
  /\ first_combined = [t \in SessionTexts |-> <<>>]
  /\ OutsideInit

\* Thread w is at pc inside a call of the named method.
At(w, pc, name) == threads[w].pc = pc /\ threads[w].call.name = name

\* Thread w goes on inside its call, holding its local values.
Advance(w, pc, local) ==
  /\ threads' = [threads EXCEPT ![w].pc = pc, ![w].local = local]
  /\ UNCHANGED <<request, op, result, first_combined, outside>>

\* The call of thread w returns (or raises): outcome.  The first outcome of
\* combine_with_keyword_search for each text is kept.
Return(w, outcome) ==
  LET call == threads[w].call IN
  /\ threads' = [threads EXCEPT ![w].pc = "returned", ![w].outcome = outcome]
  /\ request' = call.request
  /\ op' = call.name
  /\ result' = outcome
  /\ first_combined' =
       IF call.name = "combine_with_keyword_search"
          /\ first_combined[call.request.text] = <<>>
         THEN [first_combined EXCEPT ![call.request.text] = <<outcome>>]
         ELSE first_combined
  /\ UNCHANGED outside

begin_call(w, call) ==
  /\ threads[w].pc = "idle"
  /\ threads' = [threads EXCEPT ![w] = [Idle EXCEPT !.pc = "called", !.call = call]]
  /\ UNCHANGED <<items, keyword_index, rules, model_config, request, op, result,
                 first_combined, outside>>

end_call(w) ==
  /\ threads[w].pc = "returned"
  /\ threads' = [threads EXCEPT ![w] = Idle]
  /\ UNCHANGED <<items, keyword_index, rules, model_config, request, op, result,
                 first_combined, outside>>

thread_apply_rules(w) ==
  /\ At(w, "called", "apply_rules")
  /\ Return(w, ApplyRules(threads[w].call.request.text))
  /\ UNCHANGED <<items, keyword_index, rules, model_config>>

thread_classify_by_text(w) ==
  /\ At(w, "called", "classify_by_text")
  /\ Return(w, ClassifyByText(threads[w].call.request.text))
  /\ UNCHANGED <<items, keyword_index, rules, model_config>>

thread_search_by_name(w) ==
  /\ At(w, "called", "search_by_name")
  /\ Return(w, SearchByName(threads[w].call.request.text))
  /\ UNCHANGED <<items, keyword_index, rules, model_config>>

thread_predict_from_image(w) ==
  /\ At(w, "called", "predict_from_image")
  /\ Return(w, PredictFromImage(threads[w].call.request.analysis,
                                threads[w].call.request.text_hint))
  /\ UNCHANGED <<items, keyword_index, rules, model_config>>

\* search_by_keyword in two steps: the direct match, then the fuzzy loop over
\* keyword_index as it is by then.
thread_direct_match(w) ==
  /\ At(w, "called", "search_by_keyword")
  /\ LET direct == DirectMatch(Lower(threads[w].call.request.text)) IN
       /\ keyword_index' = direct.index
       /\ Advance(w, "direct_done", <<direct.value>>)
  /\ UNCHANGED <<items, rules, model_config>>

thread_fuzzy_match(w) ==
  /\ At(w, "direct_done", "search_by_keyword")
  /\ Return(w, Ok(FuzzyMatches(threads[w].local[1], keyword_index,
                               Lower(threads[w].call.request.text))))
  /\ UNCHANGED <<items, keyword_index, rules, model_config>>

\* combine_with_keyword_search in three steps: apply_rules, classify_by_text,
\* the merge; an exception of the first two ends the call.
thread_combine_rules(w) ==
  /\ At(w, "called", "combine_with_keyword_search")
  /\ LET rule_scores == ApplyRules(threads[w].call.request.text) IN
       IF rule_scores.status = "raise"
         THEN Return(w, rule_scores)
         ELSE Advance(w, "rules_done", <<rule_scores.value>>)
  /\ UNCHANGED <<items, keyword_index, rules, model_config>>

thread_combine_keywords(w) ==
  /\ At(w, "rules_done", "combine_with_keyword_search")
  /\ LET keyword_results == ClassifyByText(threads[w].call.request.text) IN
       IF keyword_results.status = "raise"
         THEN Return(w, keyword_results)
         ELSE Advance(w, "keywords_done", Append(threads[w].local, keyword_results.value))
  /\ UNCHANGED <<items, keyword_index, rules, model_config>>

thread_combine_merge(w) ==
  /\ At(w, "keywords_done", "combine_with_keyword_search")
  /\ Return(w, Ok(MergeScores(threads[w].local[1], threads[w].local[2])))
  /\ UNCHANGED <<items, keyword_index, rules, model_config>>

SessionNext ==
  \/ \E w \in WorkerIds : \E call \in SessionCalls : begin_call(w, call)
  \/ \E w \in WorkerIds : thread_apply_rules(w)
  \/ \E w \in WorkerIds : thread_classify_by_text(w)
  \/ \E w \in WorkerIds : thread_search_by_name(w)
  \/ \E w \in WorkerIds : thread_predict_from_image(w)
  \/ \E w \in WorkerIds : thread_direct_match(w)
  \/ \E w \in WorkerIds : thread_fuzzy_match(w)
  \/ \E w \in WorkerIds : thread_combine_rules(w)
  \/ \E w \in WorkerIds : thread_combine_keywords(w)
  \/ \E w \in WorkerIds : thread_combine_merge(w)
  \/ \E w \in WorkerIds : end_call(w)

SessionSpec == SessionInit /\ [][SessionNext]_vars

----------------------------------------------------------------------------
(* SimpleImageAnalyzer._analyze_texture on small grayscale images.         *)

\* pixels[i] of a Python list: IndexError outside 0..len-1 (no negative
\* index is computed by the loops).
PixelAt(pixels, i) ==
  IF i >= 0 /\ i < Len(pixels) THEN Ok(pixels[i + 1]) ELSE Raise("IndexError")

Abs(n) == IF n < 0 THEN 0 - n ELSE n

\* Mutant of EdgeRange: range(side) in the place of range(side - 1).
EdgeRange_Whole(side) == 0..(side - 1)

\* range(height - 1), range(width - 1)
EdgeRange(side) == 0..(side - 2)

\* The body of the two loops at one (x, y): diff_h + diff_v, or IndexError.
EdgeAt(pixels, width, x, y) ==
  LET here == PixelAt(pixels, y * width + x)
      right == PixelAt(pixels, y * width + x + 1)
      below == PixelAt(pixels, (y + 1) * width + x)
  IN IF here.status = "raise" \/ right.status = "raise" \/ below.status = "raise"
       THEN Raise("IndexError")
       ELSE Ok(Abs(here.value - right.value) + Abs(here.value - below.value))

RECURSIVE SumOver(_, _, _)
SumOver(cells, pixels, width) ==
  IF cells = {} THEN 0
  ELSE LET c == CHOOSE c \in cells : TRUE
       IN EdgeAt(pixels, width, c[1], c[2]).value
            + SumOver(cells \ {c}, pixels, width)

\* statistics.stdev(pixels) / 255, squared: the sample variance over 255^2.
ContrastSquared(pixels) ==
  LET n == Len(pixels)
      sum == SumRange(pixels, 1, n)
      squares == SumRange([k \in 1..n |-> pixels[k] * pixels[k]], 1, n)
  IN IF n > 1 THEN Rat(n * squares - sum * sum, n * (n - 1) * 65025) ELSE RZero

\* _analyze_texture on the grayscale samples of an image: the edge score (and
\* the square of the contrast), or the IndexError of a read outside pixels.
AnalyzeTexture(img) ==
  LET cells == EdgeRange(img.width) \X EdgeRange(img.height)
  IN IF \E c \in cells : EdgeAt(img.pixels, img.width, c[1], c[2]).status = "raise"
       THEN Raise("IndexError")
       ELSE Ok([contrast_squared |-> ContrastSquared(img.pixels),
                edges |-> IF img.width > 0 /\ img.height > 0
                            THEN Rat(SumOver(cells, img.pixels, img.width),
                                     img.width * img.height * 510)
                            ELSE RZero])

MaxSide == 3

GrayLevels == {0, 255}

\* Every image of up to side x side samples.
GrayImages(side) ==
  UNION {{[width |-> w, height |-> h, pixels |-> p] : p \in [1..(w * h) -> GrayLevels]} :
           <<w, h>> \in (1..side) \X (1..side)}

TextureInit ==
  /\ items = DefaultItems
  /\ keyword_index = BuildIndex(DefaultItems)
  /\ rules = DefineRules
  /\ model_config = ModelConfig
  /\ request \in {[kind |-> "gray", image |-> g] : g \in GrayImages(MaxSide)}
  /\ op = "none"
  /\ result = NoResult
  /\ threads = [w \in WorkerIds |-> Idle]
  /\ first_combined = [t \in SessionTexts |-> <<>>]
  /\ OutsideInit

analyze_texture ==
  /\ request.kind = "gray"
  /\ Call("_analyze_texture", AnalyzeTexture(request.image))

TextureNext == analyze_texture

TextureSpec == TextureInit /\ [][TextureNext]_vars

----------------------------------------------------------------------------
(* Strings of the web interface, as code points.                           *)

Path_Root == <<47>>     \* /
Path_Classify == <<47, 99, 108, 97, 115, 115, 105, 102, 121>>     \* /classify
Path_Search == <<47, 115, 101, 97, 114, 99, 104>>     \* /search
Path_SearchResult == <<47, 115, 101, 97, 114, 99, 104, 95, 114, 101, 115, 117, 108, 116>>     \* /search_result
Path_Stats == <<47, 115, 116, 97, 116, 115>>     \* /stats
Path_Favicon == <<47, 102, 97, 118, 105, 99, 111, 110, 46, 105, 99, 111>>     \* /favicon.ico
Path_Upload == <<47, 117, 112, 108, 111, 97, 100>>     \* /upload
Key_Q == <<113>>     \* q
Key_UserId == <<117, 115, 101, 114, 95, 105, 100>>     \* user_id
Key_Days == <<100, 97, 121, 115>>     \* days
Default_Days == <<55>>     \* 7
Guest == <<103, 117, 101, 115, 116>>     \* guest
MultipartFormData == <<109, 117, 108, 116, 105, 112, 97, 114, 116, 47, 102, 111, 114, 109, 45, 100, 97, 116, 97>>     \* multipart/form-data
ServerErrorMessage == <<26381, 21153, 22120, 38169, 35823, 58, 32>>     \* 服务器错误: 
UploadErrorMessage == <<19978, 20256, 22788, 29702, 22833, 36133, 58, 32>>     \* 上传处理失败: 
ContentTypeMessage == <<26080, 25928, 30340, 20869, 23481, 31867, 22411>>     \* 无效的内容类型
NoFileMessage == <<26410, 36873, 25321, 25991, 20214>>     \* 未选择文件

----------------------------------------------------------------------------
(* DatabaseManager: user_records and statistics behind one connection.     *)
(* A category is stored under its enum name; None is <<>>, a value v <<v>>.*)

\* INSERT OR IGNORE INTO statistics (date, category, count) VALUES (?, ?, 0)
InsertOrIgnore(statistics, date, category) ==
  IF \E k \in 1..Len(statistics) :
       statistics[k].date = date /\ statistics[k].category = category
    THEN statistics
    ELSE Append(statistics, [date |-> date, category |-> category, count |-> 0])

\* UPDATE statistics SET count = count + 1 WHERE date = ? AND category = ?
UpdateCount(statistics, date, category) ==
  [k \in 1..Len(statistics) |->
     IF statistics[k].date = date /\ statistics[k].category = category
       THEN [statistics[k] EXCEPT !.count = @ + 1]
       ELSE statistics[k]]

\* add_record.  fault names the statement sqlite3 fails, if any: "execute"
\* (the first INSERT: database is locked by a writer), "commit" (database is
\* locked by a reader of another connection), "none".  The first INSERT also
\* fails on a None category (NOT NULL).  The except branch returns False and
\* does not roll back, so what was executed stays pending in the connection.
AddRecord(db, record, day, fault) ==
  IF fault = "execute" \/ record.category = <<>>
    THEN [database |-> db, returned |-> FALSE]
    ELSE LET inserted == Append(db.user_records, record)
             counted == UpdateCount(InsertOrIgnore(db.statistics, day, record.category[1]),
                                    day, record.category[1])
         IN IF fault = "commit"
              THEN [database |-> [db EXCEPT !.user_records = inserted,
                                            !.statistics = counted],
                    returned |-> FALSE]
              ELSE [database |-> [user_records |-> inserted, statistics |-> counted,
                                  disk |-> [user_records |-> inserted,
                                            statistics |-> counted]],
                    returned |-> TRUE]

MaxRecords == 3

MaxDays == 2

Faults == {"none", "execute", "commit"}

\* The records add_record is called with.
Records ==
  {[user_id |-> Guest, action |-> "text_search", item_name |-> Plastic_Bottle,
    category |-> c, confidence |-> <<Rat(1, 2)>>] :
      c \in {<<"RECYCLABLE">>, <<"OTHER">>, <<>>}}

DatabaseInit ==
  /\ items = DefaultItems
  /\ keyword_index = BuildIndex(DefaultItems)
  /\ rules = DefineRules
  /\ model_config = ModelConfig
  /\ request = NoCall.request
  /\ op = "none"
  /\ result = NoResult
  /\ threads = [w \in WorkerIds |-> Idle]
  /\ first_combined = [t \in SessionTexts |-> <<>>]
  /\ OutsideInit

add_record ==
  /\ Len(database.user_records) < MaxRecords
  /\ \E record \in Records : \E fault \in Faults :
       LET r == AddRecord(database, record, today, fault) IN
         /\ database' = r.database
         /\ request' = [kind |-> "record", record |-> record, fault |-> fault]
         /\ op' = "add_record"
         /\ result' = Ok(r.returned)
  /\ UNCHANGED <<items, keyword_index, rules, model_config, threads, first_combined,
                 today, server, config_class>>

\* datetime.date.today() moves on.
midnight ==
  /\ today < MaxDays
  /\ today' = today + 1
  /\ UNCHANGED <<items, keyword_index, rules, model_config, request, op, result,
                 threads, first_combined, database, server, config_class>>

DatabaseNext == add_record \/ midnight

DatabaseSpec == DatabaseInit /\ [][DatabaseNext]_vars

----------------------------------------------------------------------------
(* ConfigManager: the class attribute _instance, the objects allocated by  *)
(* object.__new__, and the components holding the reference a construction *)
(* returned.  running is FALSE once an exception has left main().          *)

\* ConfigManager.__new__ when it always allocates.
ConfigNew_Fresh(cls, fault) ==
  LET id == Len(cls.objects) + 1
      obj == [initialize_runs |-> 1,
              model_config |-> IF fault = "mkdir" THEN <<>> ELSE <<ModelConfig>>]
  IN [class |-> [cls EXCEPT !.instance = <<id>>, !.objects = Append(@, obj)],
      outcome |-> IF fault = "mkdir" THEN Raise("OSError") ELSE Ok(id)]

\* _initialize on object obj: the two mkdir calls come before the
\* assignment of model_config, so a failing mkdir leaves it unset.
Initialize(obj, fault) ==
  [initialize_runs |-> obj.initialize_runs + 1,
   model_config |-> IF fault = "mkdir" THEN <<>> ELSE <<ModelConfig>>]

\* ConfigManager.__new__: _instance is assigned before _initialize runs.
ConfigNew(cls, fault) ==
  IF cls.instance = <<>>
    THEN LET id == Len(cls.objects) + 1
             obj == Initialize([initialize_runs |-> 0, model_config |-> <<>>], fault)
         IN [class |-> [cls EXCEPT !.instance = <<id>>, !.objects = Append(@, obj)],
             outcome |-> IF fault = "mkdir" THEN Raise("OSError") ELSE Ok(id)]
    ELSE [class |-> cls, outcome |-> Ok(cls.instance[1])]

MaxHolders == 3

\* The objects whose __init__ (or body) calls ConfigManager().
Components ==
  {"knowledge_base", "rule_engine", "image_analyzer", "ui", "cli", "run_tests"}

ConfigFaults == {"none", "mkdir"}

ConfigInit == DatabaseInit

\* self.config = ConfigManager() in a component.  An exception leaves the
\* component's __init__ and main(), which prints it and returns.
construct ==
  /\ config_class.running
  /\ Len(config_class.holders) < MaxHolders
  /\ \E component \in Components : \E fault \in ConfigFaults :
       LET r == ConfigNew(config_class, fault) IN
         /\ config_class' =
              IF r.outcome.status = "ok"
                THEN [r.class EXCEPT !.holders =
                        Append(@, [component |-> component, config |-> r.outcome.value])]
                ELSE [r.class EXCEPT !.running = FALSE]
         /\ request' = [kind |-> "construct", component |-> component, fault |-> fault]
         /\ op' = "ConfigManager"
         /\ result' = r.outcome
  /\ UNCHANGED <<items, keyword_index, rules, model_config, threads, first_combined,
                 database, today, server>>

\* self.config.model_config read by a component.
read_model_config ==
  /\ config_class.running
  /\ \E k \in 1..Len(config_class.holders) :
       /\ request' = [kind |-> "read", component |-> config_class.holders[k].component]
       /\ op' = "model_config"
       /\ result' =
            LET held == config_class.objects[config_class.holders[k].config].model_config
            IN IF held = <<>> THEN Raise("AttributeError") ELSE Ok(held[1])
  /\ UNCHANGED <<items, keyword_index, rules, model_config, threads, first_combined,
                 database, today, server, config_class>>

ConfigNext == construct \/ read_model_config

ConfigSpec == ConfigInit /\ [][ConfigNext]_vars

----------------------------------------------------------------------------
(* The web server: BaseHTTPRequestHandler with do_GET and do_POST, served  *)
(* one request at a time by HTTPServer.  A response is the status line and *)
(* the page sent; status 0 is a connection closed without any response.    *)

\* The k-th smallest element of a set of integers.
Nth(S, k) == CHOOSE i \in S : Cardinality({j \in S : j <= i}) = k

\* The elements of a sequence of <<>> or <<x>> that hold a value, in order.
Compact(f) ==
  LET held == {i \in 1..Len(f) : f[i] # <<>>}
  IN [k \in 1..Cardinality(held) |-> f[Nth(held, k)][1]]

\* str.startswith
StartsWith(s, prefix) ==
  /\ Len(prefix) <= Len(s)
  /\ SubSeq(s, 1, Len(prefix)) = prefix

\* str.split(ch)
SplitOn(s, ch) ==
  LET at == {i \in 1..Len(s) : s[i] = ch}
      bound(k) == IF k = 0 THEN 0
                  ELSE IF k = Cardinality(at) + 1 THEN Len(s) + 1 ELSE Nth(at, k)
  IN [k \in 1..(Cardinality(at) + 1) |-> SubSeq(s, bound(k - 1) + 1, bound(k) - 1)]

\* The part of s before the first ch and the part after it.
Partition(s, ch) ==
  LET at == {i \in 1..Len(s) : s[i] = ch}
  IN IF at = {} THEN [before |-> s, found |-> FALSE, after |-> <<>>]
     ELSE [before |-> SubSeq(s, 1, Nth(at, 1) - 1), found |-> TRUE,
           after |-> SubSeq(s, Nth(at, 1) + 1, Len(s))]

\* urllib.parse.urlparse of a request line that starts with one "/": the
\* fragment is cut at "#", then the query at "?".
Urlparse(url) ==
  LET whole == Partition(url, 35).before
      cut == Partition(whole, 63)
  IN [path |-> cut.before, query |-> cut.after]

HexDigitValue(c) ==
  IF c >= 48 /\ c <= 57 THEN c - 48
  ELSE IF c >= 65 /\ c <= 70 THEN c - 55
  ELSE IF c >= 97 /\ c <= 102 THEN c - 87
  ELSE 0 - 1

EscapeAt(s, i) ==
  /\ s[i] = 37
  /\ i + 2 <= Len(s)
  /\ HexDigitValue(s[i + 1]) >= 0
  /\ HexDigitValue(s[i + 2]) >= 0

\* urllib.parse.unquote_to_bytes of an ASCII string: %XX becomes one byte.
UnquoteToBytes(s) ==
  Compact([i \in 1..Len(s) |->
    IF EscapeAt(s, i) THEN <<16 * HexDigitValue(s[i + 1]) + HexDigitValue(s[i + 2])>>
    ELSE IF (i > 1 /\ EscapeAt(s, i - 1)) \/ (i > 2 /\ EscapeAt(s, i - 2)) THEN <<>>
    ELSE <<s[i]>>])

Continuation(bytes, i) == i <= Len(bytes) /\ bytes[i] >= 128 /\ bytes[i] < 192

LeadTwo(bytes, i) == bytes[i] >= 194 /\ bytes[i] < 224 /\ Continuation(bytes, i + 1)

LeadThree(bytes, i) ==
  /\ bytes[i] >= 224 /\ bytes[i] < 240
  /\ Continuation(bytes, i + 1)
  /\ Continuation(bytes, i + 2)

\* bytes.decode("utf-8", "replace") for sequences of one, two and three
\* bytes; any other byte becomes U+FFFD.
Utf8Decode(bytes) ==
  Compact([i \in 1..Len(bytes) |->
    IF bytes[i] < 128 THEN <<bytes[i]>>
    ELSE IF LeadTwo(bytes, i)
      THEN <<(bytes[i] - 192) * 64 + (bytes[i + 1] - 128)>>
    ELSE IF LeadThree(bytes, i)
      THEN <<(bytes[i] - 224) * 4096 + (bytes[i + 1] - 128) * 64 + (bytes[i + 2] - 128)>>
    ELSE IF \/ (i > 1 /\ (LeadTwo(bytes, i - 1) \/ LeadThree(bytes, i - 1)))
            \/ (i > 2 /\ LeadThree(bytes, i - 2))
      THEN <<>>
    ELSE <<65533>>])

\* urllib.parse.unquote after "+" was replaced by a space.
Unquote(s) ==
  Utf8Decode(UnquoteToBytes([i \in 1..Len(s) |-> IF s[i] = 43 THEN 32 ELSE s[i]]))

\* urllib.parse.parse_qs (keep_blank_values False): the pairs name=value in
\* order; a piece without "=" or with an empty value is dropped.
ParseQs(query) ==
  LET pieces == SplitOn(query, 38)
  IN Compact([k \in 1..Len(pieces) |->
       LET nv == Partition(pieces[k], 61)
       IN IF ~nv.found \/ nv.after = <<>> THEN <<>>
          ELSE <<[name |-> Unquote(nv.before), value |-> Unquote(nv.after)]>>])

\* query_params.get(name, [default])[0]
QueryGet(query_params, name, default) ==
  LET at == {k \in 1..Len(query_params) : query_params[k].name = name}
  IN IF at = {} THEN default ELSE query_params[Nth(at, 1)].value

IsDigit(c) == c >= 48 /\ c <= 57

RECURSIVE DigitsValue(_)
DigitsValue(s) ==
  IF s = <<>> THEN 0 ELSE 10 * DigitsValue(SubSeq(s, 1, Len(s) - 1)) + (s[Len(s)] - 48)

\* int(str) of ASCII decimal digits; anything else raises ValueError.
ParseInt(s) ==
  IF s # <<>> /\ \A i \in 1..Len(s) : IsDigit(s[i])
    THEN Ok(DigitsValue(s))
    ELSE Raise("ValueError")

\* _send_html_response
SendHtmlResponse(page, detail) ==
  Ok([status |-> 200, page |-> page, detail |-> detail])

\* send_error: the message goes into the status line, which is encoded as
\* latin-1 (strict).
SendError(code, message) ==
  IF \A i \in 1..Len(message) : message[i] < 256
    THEN Ok([status |-> code, page |-> "error", detail |-> <<>>])
    ELSE Raise("UnicodeEncodeError")

\* get_statistics: SUM(count) per category over the rows with
\* date >= date('now', '-days days').
GetStatistics(db, day, days) ==
  [category_stats |->
     {<<c, SumRange([k \in 1..Len(db.statistics) |->
                       IF db.statistics[k].category = c /\ db.statistics[k].date >= day - days
                         THEN db.statistics[k].count ELSE 0],
                    1, Len(db.statistics))>> :
        c \in {db.statistics[k].category :
                 k \in {j \in 1..Len(db.statistics) : db.statistics[j].date >= day - days}}},
   total_days |-> days]

\* What a handler leaves: the database, the uploaded files, the response
\* sent (or the exception that left the handler) and whether
\* _handle_search_result took its branch "if results:".
Handled(db, files, response, ranked) ==
  [database |-> db, files |-> files, response |-> response, ranked |-> ranked]

\* _send_stats_page
SendStatsPage(db, files, path, day) ==
  LET query_params == ParseQs(Urlparse(path).query)
      days == ParseInt(QueryGet(query_params, Key_Days, Default_Days))
  IN IF days.status = "raise" THEN Handled(db, files, days, FALSE)
     ELSE Handled(db, files,
                  SendHtmlResponse("stats", GetStatistics(db, day, days.value)), FALSE)

\* _handle_search_result without the return on an empty query.
HandleSearchResult_NoEmptyCheck(db, files, path, day) ==
  LET query_params == ParseQs(Urlparse(path).query)
      query == QueryGet(query_params, Key_Q, <<>>)
      user_id == QueryGet(query_params, Key_UserId, Guest)
      results == CombineWithKeywordSearch(query)
  IN IF results.status = "raise" THEN Handled(db, files, results, FALSE)
     ELSE IF results.value # <<>>
       THEN LET record == [user_id |-> user_id, action |-> "text_search",
                           item_name |-> query,
                           category |-> <<results.value[1][1]>>,
                           confidence |-> <<results.value[1][2]>>]
            IN Handled(AddRecord(db, record, day, "none").database, files,
                       SendHtmlResponse("search_result", query), TRUE)
       ELSE Handled(db, files, SendHtmlResponse("search_result", query), FALSE)

\* _handle_search_result.  add_record's return value is not looked at; the
\* database is taken to accept the statements (fault "none").
HandleSearchResult(db, files, path, day) ==
  LET query_params == ParseQs(Urlparse(path).query)
      query == QueryGet(query_params, Key_Q, <<>>)
      user_id == QueryGet(query_params, Key_UserId, Guest)
  IN IF query = <<>>
       THEN Handled(db, files, SendHtmlResponse("search", <<>>), FALSE)
       ELSE LET results == CombineWithKeywordSearch(query)
            IN IF results.status = "raise" THEN Handled(db, files, results, FALSE)
               ELSE IF results.value # <<>>
                 THEN LET record == [user_id |-> user_id, action |-> "text_search",
                                     item_name |-> query,
                                     category |-> <<results.value[1][1]>>,
                                     confidence |-> <<results.value[1][2]>>]
                      IN Handled(AddRecord(db, record, day, "none").database, files,
                                 SendHtmlResponse("search_result", query), TRUE)
                 ELSE Handled(db, files, SendHtmlResponse("search_result", query), FALSE)

\* What a handler's exception becomes: the except clause calls send_error
\* with a message; if that raises too, the connection is closed.
Except(handled, code, message) ==
  IF handled.response.status = "ok" THEN handled
  ELSE [handled EXCEPT !.response = SendError(code, message)]

\* do_GET: the request line is compared whole, query string included.
DoGET(db, files, path, day) ==
  Except(
    IF path = Path_Root THEN Handled(db, files, SendHtmlResponse("home", <<>>), FALSE)
    ELSE IF path = Path_Classify
      THEN Handled(db, files, SendHtmlResponse("classify", <<>>), FALSE)
    ELSE IF path = Path_Search
      THEN Handled(db, files, SendHtmlResponse("search", <<>>), FALSE)
    ELSE IF StartsWith(path, Path_SearchResult) THEN HandleSearchResult(db, files, path, day)
    ELSE IF path = Path_Stats THEN SendStatsPage(db, files, path, day)
    ELSE IF path = Path_Favicon THEN Handled(db, files, SendError(404, <<>>), FALSE)
    ELSE Handled(db, files, SendHtmlResponse("home", <<>>), FALSE),
    500, ServerErrorMessage)

\* src/cgi.py: the names the module defines and the parameters that
\* FieldStorage.__init__ takes besides self.
Cgi == [names |-> {"urllib", "os", "sys", "escape", "FieldStorage"},
        FieldStorage_parameters |-> {}]

\* cgi.parse_header: the value before the first ";".
ParseHeader(line) == Partition(line, 59).before

\* f"{int(time.time())}_{image_file.filename}", the clock read as the day.
SavedName(day, filename) == <<48 + day, 95>> \o filename

\* _handle_upload.  upload is the request: its Content-Type header and the
\* form fields image (filename, analysis of its content) and text_hint.
HandleUpload(db, files, upload, day) ==
  Except(
    IF "parse_header" \notin Cgi.names THEN Handled(db, files, Raise("AttributeError"), FALSE)
    ELSE IF ParseHeader(upload.content_type) # MultipartFormData
      THEN Handled(db, files, SendError(400, ContentTypeMessage), FALSE)
    ELSE IF ~({"fp", "headers", "environ"} \subseteq Cgi.FieldStorage_parameters)
      THEN Handled(db, files, Raise("TypeError"), FALSE)
    ELSE IF upload.filename = <<>>
      THEN Handled(db, files, SendError(400, NoFileMessage), FALSE)
    ELSE LET filename == SavedName(day, upload.filename)
             saved == Append(files, filename)
             predictions == PredictFromImage(upload.analysis, upload.text_hint)
         IN IF predictions.status = "raise" THEN Handled(db, saved, predictions, FALSE)
            ELSE IF predictions.value # <<>>
              THEN LET record == [user_id |-> Guest, action |-> "image_upload",
                                  item_name |-> filename,
                                  category |-> <<predictions.value[1][1]>>,
                                  confidence |-> <<predictions.value[1][2]>>]
                   IN Handled(AddRecord(db, record, day, "none").database, saved,
                              SendHtmlResponse("classify", predictions.value), FALSE)
              ELSE Handled(db, saved, SendHtmlResponse("classify", <<>>), FALSE),
    500, UploadErrorMessage)

\* do_POST
DoPOST(db, files, upload, day) ==
  IF upload.path = Path_Upload THEN HandleUpload(db, files, upload, day)
  ELSE Handled(db, files, SendError(404, <<>>), FALSE)

MaxRequests == 3

\* The request lines of GET requests (ASCII: a browser percent-encodes the rest):
\*   /   (home)
\*   /classify
\*   /search
\*   /stats
\*   /favicon.ico
\*   /nothing
\*   /stats?days=30&user_filter=all   (the statistics form, 30 days)
\*   /stats?days=7&user_filter=current   (the statistics form, 7 days)
\*   /stats?days=abc
\*   /search_result
\*   /search_result?q=
\*   /search_result?user_id=bob
\*   /search_result?q=%E5%A1%91%E6%96%99%E7%93%B6   (q = 塑料瓶)
\*   /search_result?q=%E7%94%B5%E6%B1%A0&user_id=bob   (q = 电池, user_id = bob)
\*   /search_result?q=%E5%89%A9%E9%A5%AD   (q = 剩饭)
\*   /search_result?q=xyz
GetPaths ==
  {<<47>>,
   <<47, 99, 108, 97, 115, 115, 105, 102, 121>>,
   <<47, 115, 101, 97, 114, 99, 104>>,
   <<47, 115, 116, 97, 116, 115>>,
   <<47, 102, 97, 118, 105, 99, 111, 110, 46, 105, 99, 111>>,
   <<47, 110, 111, 116, 104, 105, 110, 103>>,
   <<47, 115, 116, 97, 116, 115, 63, 100, 97, 121, 115, 61, 51, 48, 38, 117, 115, 101, 114, 95, 102, 105, 108, 116, 101, 114, 61, 97, 108, 108>>,
   <<47, 115, 116, 97, 116, 115, 63, 100, 97, 121, 115, 61, 55, 38, 117, 115, 101, 114, 95, 102, 105, 108, 116, 101, 114, 61, 99, 117, 114, 114, 101, 110, 116>>,
   <<47, 115, 116, 97, 116, 115, 63, 100, 97, 121, 115, 61, 97, 98, 99>>,
   <<47, 115, 101, 97, 114, 99, 104, 95, 114, 101, 115, 117, 108, 116>>,
   <<47, 115, 101, 97, 114, 99, 104, 95, 114, 101, 115, 117, 108, 116, 63, 113, 61>>,
   <<47, 115, 101, 97, 114, 99, 104, 95, 114, 101, 115, 117, 108, 116, 63, 117, 115, 101, 114, 95, 105, 100, 61, 98, 111, 98>>,
   <<47, 115, 101, 97, 114, 99, 104, 95, 114, 101, 115, 117, 108, 116, 63, 113, 61, 37, 69, 53, 37, 65, 49, 37, 57, 49, 37, 69, 54, 37, 57, 54, 37, 57, 57, 37, 69, 55, 37, 57, 51, 37, 66, 54>>,
   <<47, 115, 101, 97, 114, 99, 104, 95, 114, 101, 115, 117, 108, 116, 63, 113, 61, 37, 69, 55, 37, 57, 52, 37, 66, 53, 37, 69, 54, 37, 66, 49, 37, 65, 48, 38, 117, 115, 101, 114, 95, 105, 100, 61, 98, 111, 98>>,
   <<47, 115, 101, 97, 114, 99, 104, 95, 114, 101, 115, 117, 108, 116, 63, 113, 61, 37, 69, 53, 37, 56, 57, 37, 65, 57, 37, 69, 57, 37, 65, 53, 37, 65, 68>>,
   <<47, 115, 101, 97, 114, 99, 104, 95, 114, 101, 115, 117, 108, 116, 63, 113, 61, 120, 121, 122>>}

File_Name == <<97, 46, 112, 110, 103>>     \* a.png

TextPlain == <<116, 101, 120, 116, 47, 112, 108, 97, 105, 110>>     \* text/plain

\* multipart/form-data; boundary=x
MultipartWithBoundary == MultipartFormData \o <<59, 32, 98, 111, 117, 110, 100, 97, 114, 121, 61, 120>>

\* The POST requests: path, Content-Type header and form fields.
Uploads ==
  {[kind |-> "upload", path |-> p, content_type |-> t, filename |-> f,
    analysis |-> a, text_hint |-> << <<>> >>] :
      p \in {Path_Upload, Path_Classify},
      t \in {MultipartWithBoundary, TextPlain},
      f \in {File_Name, <<>>},
      a \in {CHOOSE x \in Analyses : TRUE}}

ServerInit == DatabaseInit

\* The response the client gets: a handler that ends in an exception
\* closes the connection without one.
ResponseOf(handled) ==
  IF handled.response.status = "ok" THEN handled.response.value
  ELSE [status |-> 0, page |-> "none", detail |-> handled.response.exc]

Serve(handled) ==
  /\ database' = handled.database
  /\ server' = [response |-> ResponseOf(handled),
                files |-> handled.files,
                ranked |-> server.ranked + (IF handled.ranked THEN 1 ELSE 0),
                requests |-> server.requests + 1]
  /\ result' = handled.response
  /\ UNCHANGED <<items, keyword_index, rules, model_config, threads, first_combined,
                 today, config_class>>

do_GET ==
  /\ server.requests < MaxRequests
  /\ \E path \in GetPaths :
       /\ request' = [kind |-> "get", path |-> path]
       /\ op' = "do_GET"
       /\ Serve(DoGET(database, server.files, path, today))

do_POST ==
  /\ server.requests < MaxRequests
  /\ \E upload \in Uploads :
       /\ request' = upload
       /\ op' = "do_POST"
       /\ Serve(DoPOST(database, server.files, upload, today))

ServerNext == do_GET \/ do_POST \/ midnight

ServerSpec == ServerInit /\ [][ServerNext]_vars

----------------------------------------------------------------------------
(* Properties                                                              *)

\* Some rule trigger of some table occurs in the lowercased text.
TriggerOccurs(text) ==
  \E t \in Triggers(rules.material_rules) \cup Triggers(rules.usage_rules)
             \cup Triggers(rules.state_rules) : In(t, Lower(text))

\* The text is empty or consists of blanks only.
Blank(text) == \A i \in 1..Len(text) : text[i] = 32

\* The entries of a ranked list name pairwise different categories.
DistinctKeys(d) == \A i, j \in 1..Len(d) : d[i][1] = d[j][1] => i = j

\* The catalog positions whose name matches a query the way search_by_name
\* matches.
NameMatches(query) ==
  {i \in 1..Len(items) :
     \/ In(Lower(query), Lower(items[i].name))
     \/ In(Lower(items[i].name), Lower(query))}

Battery == <<30005, 27744>>          \* 电池
Leftovers == <<21097, 39277>>        \* 剩饭
Plastic == <<22609, 26009>>          \* 塑料
PlasticBag == <<22609, 26009, 34955>>  \* 塑料袋

\* C1 (as claimed): apply_rules and combine_with_keyword_search never raise,
\* and combine_with_keyword_search returns a list of 0 to 4 pairs.
C1_NeverRaises ==
  /\ op = "apply_rules" => result.status = "ok"
  /\ op = "combine_with_keyword_search" =>
       result.status = "ok" /\ Len(result.value) <= 4

\* C2 (as claimed): the map of apply_rules has values >= 0 that sum to 1
\* whenever a trigger occurs in the text, and is empty only when none occurs.
C2_NormalizedWhenTriggered ==
  op = "apply_rules" =>
    /\ result.status = "ok"
    /\ \A i \in 1..Len(result.value) : RLe(RZero, result.value[i][2])
    /\ TriggerOccurs(request.text) => RSum(Values(result.value)) = ROne
    /\ result.value = <<>> => ~TriggerOccurs(request.text)

\* C3 (as claimed): classify_by_text returns the empty list for the empty
\* string and for every text of blanks.
C3_BlankGivesEmptyList ==
  (op = "classify_by_text" /\ Blank(request.text)) => result = Ok(<<>>)

\* C4 (as claimed): combine_with_keyword_search returns the empty ranked list
\* for the empty string and for every text of blanks, and does not raise.
C4_BlankGivesEmptyRanking ==
  (op = "combine_with_keyword_search" /\ Blank(request.text)) => result = Ok(<<>>)

\* C5: a text that equals, after lowercasing, the name of a catalog item makes
\* classify_by_text return exactly one pair, that item with score 1.0.
C5_ExactNameShortCircuit ==
  \A i \in 1..Len(items) :
    (op = "classify_by_text" /\ Lower(request.text) = Lower(items[i].name)) =>
      result = Ok(<< <<i, ROne>> >>)

C5_Witness ==
  /\ op = "classify_by_text"
  /\ request.text = PlasticBag
  /\ result = Ok(<< <<16, ROne>> >>)

\* C6 (as claimed): whatever analyze_image returned, failure included,
\* predict_from_image returns 4 pairs, one per category, that sum to 1.0.
C6_AlwaysFourSummingToOne ==
  op = "predict_from_image" =>
    /\ result.status = "ok"
    /\ Len(result.value) = 4
    /\ {result.value[i][1] : i \in 1..Len(result.value)} = Categories
    /\ RSum(Values(result.value)) = ROne

\* C6 (amended): when analyze_image returned features (no error marker),
\* predict_from_image returns 4 pairs, one per category, that sum to 1.0,
\* for every brightness, contrast, dominant colour and text hint.
C6_FourSummingToOneOnSuccess ==
  (op = "predict_from_image" /\ ~request.analysis.error) =>
    /\ result.status = "ok"
    /\ Len(result.value) = 4
    /\ DistinctKeys(result.value)
    /\ {result.value[i][1] : i \in 1..Len(result.value)} = Categories
    /\ RSum(Values(result.value)) = ROne

C6_Witness ==
  /\ op = "predict_from_image"
  /\ ~request.analysis.error
  /\ request.text_hint = <<Battery>>
  /\ request.analysis.contrast = RZero
  /\ Len(result.value) = 4
  /\ result.value[1][1] = "HAZARDOUS"

\* C7: when analyze_image returned an error marker, predict_from_image
\* returns the single pair (OTHER, 0.5) if a (non-empty) text hint was given
\* and (OTHER, 0.3) if none was given, whatever the hint says.
C7_FallbackOnError ==
  (op = "predict_from_image" /\ request.analysis.error) =>
    IF request.text_hint # <<>> /\ request.text_hint[1] # <<>>
      THEN result = Ok(<< <<"OTHER", Rat(5, 10)>> >>)
      ELSE result = Ok(<< <<"OTHER", Rat(3, 10)>> >>)

C7_Witness ==
  /\ op = "predict_from_image"
  /\ request.analysis.error
  /\ request.text_hint = <<Battery>>
  /\ result = Ok(<< <<"OTHER", Rat(5, 10)>> >>)

\* C8: with the name of a catalog item as the query,
\* combine_with_keyword_search ranks that item's category first; the query
\* 电池 gets HAZARDOUS from the catalog alone, no rule trigger occurring in it.
C8_OwnCategoryFirst ==
  /\ \A i \in 1..Len(items) :
       (op = "combine_with_keyword_search" /\ request.text = items[i].name) =>
         /\ result.status = "ok"
         /\ Len(result.value) >= 1
         /\ result.value[1][1] = items[i].category
         /\ \A j \in 2..Len(result.value) :
              RLt(result.value[j][2], result.value[1][2])
  /\ (op = "combine_with_keyword_search" /\ request.text = Battery) =>
       /\ ~TriggerOccurs(Battery)
       /\ result = Ok(<< <<"HAZARDOUS", model_config.keyword_weight>> >>)

C8_Witness ==
  /\ op = "combine_with_keyword_search"
  /\ request.text = PlasticBag
  /\ result.status = "ok"
  /\ Len(result.value) = 2
  /\ result.value[1][1] = "OTHER"
  /\ result.value[2][1] = "RECYCLABLE"

\* C9 (as claimed): for the query 剩饭 no rule trigger matches and
\* combine_with_keyword_search returns a non-empty list with KITCHEN first,
\* scored 0.3 * (0.4 + 0.3 * 1/4) from the catalog match alone.
C9_LeftoversRankKitchen ==
  (op = "combine_with_keyword_search" /\ request.text = Leftovers) =>
    /\ ~TriggerOccurs(Leftovers)
    /\ result.status = "ok"
    /\ Len(result.value) >= 1
    /\ result.value[1] = <<"KITCHEN", RMul(Rat(3, 10), Rat(19, 40))>>

\* C10: search_by_name returns the first item, in catalog order, whose
\* lowercased name contains the lowercased query or is contained in it, and
\* None exactly when there is no such item; the query 塑料 finds 塑料瓶, the
\* first item, not 塑料袋.
C10_FirstNameMatch ==
  op = "search_by_name" =>
    /\ result.status = "ok"
    /\ LET matches == NameMatches(request.text) IN
       IF matches = {}
         THEN result.value = <<>>
         ELSE /\ Len(result.value) = 1
              /\ result.value[1] \in matches
              /\ \A j \in matches : result.value[1] <= j
    /\ request.text = Plastic => result.value = <<1>>

C10_Witness ==
  /\ op = "search_by_name"
  /\ request.text = Plastic
  /\ result = Ok(<<1>>)
  /\ 16 \in NameMatches(request.text)

\* The value of a hexadecimal digit.
HexValue(ch) == (CHOOSE v \in 1..16 : HexDigits[v] = ch) - 1

\* Bit j (1 = most significant) of a value in 0..15.
NibbleBit(v, j) == (v \div (2 ^ (4 - j))) % 2

\* C13: the hash has 16 hexadecimal characters; bit j of character n is 1
\* exactly when sample 4(n-1)+j exceeds the mean of the 64 samples (so equal
\* samples give equal hashes); a solid image gives all '0' or all 'f'.
C13_HashOfThumbnail ==
  op = "generate_image_hash" =>
    LET pixels == request.pixels
        hash == result.value
        total == SumRange(pixels, 1, 64)
    IN /\ result.status = "ok"
       /\ Len(hash) = 16
       /\ \A n \in 1..16 : \E v \in 1..16 : HexDigits[v] = hash[n]
       /\ \A n \in 1..16 : \A j \in 1..4 :
            (NibbleBit(HexValue(hash[n]), j) = 1) <=> (64 * pixels[4 * (n - 1) + j] > total)
       /\ (\A i \in 1..64 : pixels[i] = pixels[1]) =>
            \/ \A n \in 1..16 : hash[n] = "0"
            \/ \A n \in 1..16 : hash[n] = "f"

C13_Witness ==
  /\ op = "generate_image_hash"
  /\ \A i \in 1..64 : request.pixels[i] = 200
  /\ result = Ok([n \in 1..16 |-> "0"])

Shatter == <<30772, 30862>>          \* 破碎
Dry == <<24178, 29157>>              \* 干燥
Clean == <<28165, 27905>>            \* 清洁

\* Two score maps hold the same categories with the same scores.
SameMap(d, e) ==
  \A c \in Categories : HasKey(d, c) = HasKey(e, c) /\ Get(d, c) = Get(e, c)

\* The dampening step as C14 states it: every non-OTHER score times 0.8, and
\* 0.2 added to OTHER once.
ClaimedDampen(scores) ==
  AddTo([i \in 1..Len(scores) |->
           IF scores[i][1] # "OTHER"
             THEN <<scores[i][1], RMul(scores[i][2], Rat(8, 10))>>
             ELSE scores[i]],
        "OTHER", Rat(2, 10))

\* The state loop with the dampening step of C14 in the place of the code's.
RECURSIVE ClaimedStateRules(_, _, _)
ClaimedStateRules(scores, table, text_lower) ==
  IF table = <<>> THEN scores
  ELSE ClaimedStateRules(
         IF Head(table).trigger = Shatter
           THEN IF In(Shatter, text_lower) THEN ClaimedDampen(scores) ELSE scores
           ELSE ApplyStateRule(scores, Head(table), text_lower).value,
         Tail(table), text_lower)

\* C14 (as claimed): for a text with 破碎, apply_rules returns the normalized
\* map in which the dampening step scaled every non-OTHER score by 0.8 and
\* added 0.2 to OTHER exactly once, whatever scores were held before.
C14_DampenAddsOnce ==
  (op = "apply_rules" /\ In(Shatter, Lower(request.text))) =>
    /\ result.status = "ok"
    /\ SameMap(result.value,
               Normalize(ClaimedStateRules(MaterialUsageScores(Lower(request.text)),
                                           rules.state_rules, Lower(request.text))))

\* The scores of the items of one category in a list returned by
\* classify_by_text.
KeywordScoresOf(keyword_results, c) ==
  Values(SelectSeq(keyword_results, LAMBDA e : items[e[1]].category = c))

ClaimedItemScore(i, text) ==
  LET t == Lower(text)
      n == Cardinality({k \in 1..Len(items[i].keywords) : In(items[i].keywords[k], t)})
  IN RAdd(RAdd(IF In(t, Lower(items[i].name)) THEN Rat(4, 10) ELSE RZero,
               RMul(Rat(3, 10), Rat(n, Len(items[i].keywords)))),
          IF In(t, Lower(items[i].description)) THEN Rat(2, 10) ELSE RZero)

\* No item name equals the text.
NoExactName(text) == \A i \in 1..Len(items) : Lower(items[i].name) # Lower(text)

\* C16 (as claimed): when no item name equals the text, classify_by_text
\* returns a list in which every item carries the score 0.4 * [text in name]
\* + 0.3 * matched keywords / keywords + 0.2 * [text in description], the
\* score is > 0, and some item is listed whenever some item scores > 0.
C16_ScoreFormula ==
  (op = "classify_by_text" /\ NoExactName(request.text)) =>
    /\ result.status = "ok"
    /\ \A k \in 1..Len(result.value) :
         /\ result.value[k][2] = ClaimedItemScore(result.value[k][1], request.text)
         /\ RLt(RZero, result.value[k][2])
    /\ (\E i \in 1..Len(items) : RLt(RZero, ClaimedItemScore(i, request.text)))
         => result.value # <<>>

\* C17 (as claimed): classify_by_text returns a list of at most 5 entries,
\* sorted by non-increasing score, equal scores in catalog order, no item
\* twice, and no item left out that scores higher than a returned one.
C17_TopFiveStable ==
  op = "classify_by_text" =>
    /\ result.status = "ok"
    /\ Len(result.value) <= 5
    /\ \A j, k \in 1..Len(result.value) :
         j < k => /\ RLe(result.value[k][2], result.value[j][2])
                  /\ result.value[j][1] # result.value[k][1]
                  /\ result.value[j][2] = result.value[k][2]
                       => result.value[j][1] < result.value[k][1]
    /\ NoExactName(request.text) =>
         \A i \in 1..Len(items) : \A k \in 1..Len(result.value) :
           RLt(result.value[k][2], ClaimedItemScore(i, request.text))
             => \E j \in 1..Len(result.value) : result.value[j][1] = i

\* What the state rules that name a category (潮湿, 污染) add to category c.
StateCategoryBonus(c, t) ==
  RSum([k \in 1..Len(rules.state_rules) |->
          IF /\ rules.state_rules[k].kind = "category"
             /\ In(rules.state_rules[k].trigger, t)
             /\ rules.state_rules[k].category = c
            THEN rules.state_rules[k].weight ELSE RZero])

\* C18: for a text with 干燥 or 清洁, the map apply_rules returns holds
\* RECYCLABLE exactly when a material or usage rule gave RECYCLABLE a score;
\* and when 破碎 is absent the map is the normalization of the material, usage
\* and state-category scores with 0.1 added to RECYCLABLE per occurring
\* trigger of the two, only if RECYCLABLE held a score, every other category
\* unchanged.  A text with no other trigger gives a map without RECYCLABLE.
C18_IncreaseOnlyAmplifies ==
  (op = "apply_rules" /\ (In(Dry, Lower(request.text)) \/ In(Clean, Lower(request.text)))) =>
    LET t == Lower(request.text)
        base == MaterialUsageScores(t)
        n == (IF In(Dry, t) THEN 1 ELSE 0) + (IF In(Clean, t) THEN 1 ELSE 0)
        claimed(c) == RAdd(RAdd(Get(base, c), StateCategoryBonus(c, t)),
                           IF c = "RECYCLABLE" /\ HasKey(base, c)
                             THEN Rat(n, 10) ELSE RZero)
        total == RSum([k \in 1..Len(GarbageCategory) |-> claimed(GarbageCategory[k])])
    IN /\ result.status = "ok" =>
            (HasKey(result.value, "RECYCLABLE") <=> HasKey(base, "RECYCLABLE"))
       /\ ~In(Shatter, t) =>
            /\ result.status = "ok"
            /\ DistinctKeys(result.value)
            /\ \A c \in Categories :
                 /\ HasKey(result.value, c) <=> RLt(RZero, claimed(c))
                 /\ Get(result.value, c) =
                      IF RLt(RZero, total) THEN RDiv(claimed(c), total) ELSE RZero

\* A text with both triggers and a material of RECYCLABLE: 0.2 was added.
C18_Witness ==
  /\ op = "apply_rules"
  /\ In(Dry, Lower(request.text)) /\ In(Clean, Lower(request.text))
  /\ ~In(Shatter, Lower(request.text))
  /\ result.status = "ok"
  /\ HasKey(result.value, "RECYCLABLE") /\ HasKey(result.value, "OTHER")

\* What C19 says one material or usage rule adds to category c.
ClaimedRuleShare(rule, c, t) ==
  IF ~In(rule.trigger, t) THEN RZero
  ELSE IF rule.kind = "category"
    THEN IF rule.category = c THEN rule.weight ELSE RZero
  ELSE IF \E k \in 1..Len(rule.categories) : rule.categories[k] = c
    THEN RDiv(rule.weight, Rat(Len(rule.categories), 1))
  ELSE RZero

\* The sum of the claimed contributions of all material and usage rules.
ClaimedContribution(c, t) ==
  LET table == rules.material_rules \o rules.usage_rules
  IN RSum([k \in 1..Len(table) |-> ClaimedRuleShare(table[k], c, t)])

\* The categories with a claimed contribution, as a score dict.
ClaimedBase(t) ==
  SelectSeq([k \in 1..Len(GarbageCategory) |->
               <<GarbageCategory[k], ClaimedContribution(GarbageCategory[k], t)>>],
            LAMBDA e : RLt(RZero, e[2]))

\* C19: apply_rules returns what the state loop and the normalization make
\* of the scores in which every material or usage trigger occurring in the
\* lowercased text added its full weight to its single category, or weight / n
\* to each of its n categories, contributions adding up and absent triggers
\* adding nothing; with no state trigger in the text the result is exactly
\* the normalization of those sums.
C19_MaterialUsageContributions ==
  op = "apply_rules" =>
    LET t == Lower(request.text)
        state == ApplyStateRules(ClaimedBase(t), rules.state_rules, t)
    IN /\ \A c \in Categories :
            Get(MaterialUsageScores(t), c) = ClaimedContribution(c, t)
       /\ result.status = state.status
       /\ result.status = "ok" => SameMap(result.value, Normalize(state.value))
       /\ (\A k \in 1..Len(rules.state_rules) : ~In(rules.state_rules[k].trigger, t)) =>
            /\ result.status = "ok"
            /\ SameMap(result.value, Normalize(ClaimedBase(t)))

\* Two matching triggers add up on one category and a category set is split:
\* 金属 (0.4 to RECYCLABLE) and 塑料 (0.15 each to RECYCLABLE and OTHER).
C19_Witness ==
  /\ op = "apply_rules"
  /\ \A k \in 1..Len(rules.state_rules) :
       ~In(rules.state_rules[k].trigger, Lower(request.text))
  /\ ClaimedContribution("RECYCLABLE", Lower(request.text)) = Rat(55, 100)
  /\ ClaimedContribution("OTHER", Lower(request.text)) = Rat(15, 100)
  /\ result = Ok(<< <<"RECYCLABLE", Rat(55, 70)>>, <<"OTHER", Rat(15, 70)>> >>)

\* The hint holds one of the words.
HintHas(words, text_hint) ==
  text_hint # <<>> /\ \E w \in words : In(w, text_hint[1])

MaterialWords == {<<22609, 26009>>, <<37329, 23646>>, <<29627, 29827>>}   \* 塑料 金属 玻璃
HazardWords == {<<30005, 27744>>, <<33647, 21697>>, <<27833, 28422>>}     \* 电池 药品 油漆
FoodWords == {<<39135, 29289>>, <<26524, 30382>>, <<21097, 39277>>}       \* 食物 果皮 剩饭

\* The one category C20 credits for a hint, or "none".
CreditedCategory(text_hint) ==
  IF HintHas(MaterialWords, text_hint) THEN "RECYCLABLE"
  ELSE IF HintHas(HazardWords, text_hint) THEN "HAZARDOUS"
  ELSE IF HintHas(FoodWords, text_hint) THEN "KITCHEN"
  ELSE "none"

\* C20: on the success path predict_from_image returns the four categories
\* with the normalized scores of the image rules plus 0.2 on the one category
\* the hint credits (RECYCLABLE before HAZARDOUS before KITCHEN, none when
\* the hint holds no keyword or is absent), a category without a score
\* counting 0.1; no second group of the hint is credited.
C20_HintCreditsOneCategory ==
  (op = "predict_from_image" /\ ~request.analysis.error) =>
    LET image == ImageRules(request.analysis)
        credited == CreditedCategory(request.text_hint)
        claimed(c) == IF HasKey(image, c) \/ c = credited
                        THEN RAdd(Get(image, c),
                                  IF c = credited THEN Rat(2, 10) ELSE RZero)
                        ELSE Rat(1, 10)
        total == RSum([k \in 1..Len(GarbageCategory) |-> claimed(GarbageCategory[k])])
    IN /\ result.status = "ok"
       /\ Len(result.value) = Len(GarbageCategory)
       /\ \A c \in Categories :
            HasKey(result.value, c) /\ Get(result.value, c) = RDiv(claimed(c), total)

\* A hint with keywords of two groups (电池 and 塑料) on a successful analysis.
C20_Witness ==
  /\ op = "predict_from_image"
  /\ ~request.analysis.error
  /\ HintHas(MaterialWords, request.text_hint)
  /\ HintHas(HazardWords, request.text_hint)
  /\ result.status = "ok"
  /\ Len(result.value) = Len(GarbageCategory)

\* What a call returns when it runs alone, from its first step to its last.
SequentialResult(call) ==
  IF call.name = "apply_rules" THEN ApplyRules(call.request.text)
  ELSE IF call.name = "classify_by_text" THEN ClassifyByText(call.request.text)
  ELSE IF call.name = "search_by_name" THEN SearchByName(call.request.text)
  ELSE IF call.name = "search_by_keyword" THEN SearchByKeyword(call.request.text).result
  ELSE IF call.name = "combine_with_keyword_search"
    THEN CombineWithKeywordSearch(call.request.text)
  ELSE PredictFromImage(call.request.analysis, call.request.text_hint)

\* C11: a call of combine_with_keyword_search that has returned gave exactly
\* what the first call with the same text gave (the same list in the same
\* order with the same scores, or the same exception), whatever calls of
\* whatever methods ran before it or between its steps.
C11_CombineDeterministic ==
  \A w \in WorkerIds :
    At(w, "returned", "combine_with_keyword_search") =>
      first_combined[threads[w].call.request.text] = <<threads[w].outcome>>

\* Both threads have returned from combine_with_keyword_search on the same
\* text with a ranked list, one of them after the other.
C11_Witness ==
  \E w, v \in WorkerIds :
    /\ w # v
    /\ At(w, "returned", "combine_with_keyword_search")
    /\ At(v, "returned", "combine_with_keyword_search")
    /\ threads[w].call = threads[v].call
    /\ threads[w].outcome.status = "ok"
    /\ Len(threads[w].outcome.value) = 2

\* C12: no step of any call changes items, keyword_index, the rule tables or
\* model_config, and every call that has returned, whatever steps of other
\* calls ran between its own, returned what it returns when run alone.
C12_NoSharedMutableState ==
  /\ [][UNCHANGED <<items, keyword_index, rules, model_config>>]_vars
  /\ [](\A w \in WorkerIds :
          threads[w].pc = "returned" =>
            threads[w].outcome = SequentialResult(threads[w].call))

\* A search_by_keyword for a keyword that is no key of the index has returned
\* while the other thread is between the steps of a combine call.
C12_Witness ==
  \E w, v \in WorkerIds :
    /\ At(w, "returned", "search_by_keyword")
    /\ ~HasKey(keyword_index, Lower(threads[w].call.request.text))
    /\ At(v, "rules_done", "combine_with_keyword_search")

\* What the image rules, as C21 lists them, give category c.
ClaimedImageScore(c, analysis) ==
  LET b == analysis.brightness
      k == analysis.contrast
  IN IF c = "RECYCLABLE"
       THEN IF RLt(Rat(6, 10), b) /\ RLt(Rat(3, 10), k) THEN Rat(4, 10) ELSE RZero
     ELSE IF c = "KITCHEN"
       THEN IF RLt(b, Rat(4, 10)) /\ RLt(k, Rat(2, 10)) THEN Rat(3, 10) ELSE RZero
     ELSE IF c = "HAZARDOUS"
       THEN IF analysis.color_dominant[1] > 150 /\ RLt(b, Rat(5, 10))
              THEN Rat(3, 10) ELSE RZero
     ELSE IF RLe(Rat(3, 10), b) /\ RLe(b, Rat(7, 10)) /\ RLt(k, Rat(25, 100))
       THEN Rat(3, 10) ELSE RZero

\* C21: on the success path of predict_from_image the returned scores are
\* the pre-normalization scores divided by their total, where a category
\* with an image-rule or hint contribution holds exactly that contribution
\* and a category without one holds 0.1; the list is sorted by non-increasing
\* score; with no rule firing and no hint every category scores 0.25.
C21_FloorThenNormalize ==
  (op = "predict_from_image" /\ ~request.analysis.error) =>
    LET contribution(c) ==
          RAdd(ClaimedImageScore(c, request.analysis),
               IF CreditedCategory(request.text_hint) = c THEN Rat(2, 10) ELSE RZero)
        before(c) == IF contribution(c) = RZero THEN Rat(1, 10) ELSE contribution(c)
        total == RSum([k \in 1..Len(GarbageCategory) |-> before(GarbageCategory[k])])
    IN /\ result.status = "ok"
       /\ DistinctKeys(result.value)
       /\ {result.value[k][1] : k \in 1..Len(result.value)} = Categories
       /\ \A k \in 1..Len(result.value) :
            RMul(result.value[k][2], total) = before(result.value[k][1])
       /\ \A j, k \in 1..Len(result.value) :
            j < k => RLe(result.value[k][2], result.value[j][2])
       /\ (\A c \in Categories : contribution(c) = RZero) =>
            \A k \in 1..Len(result.value) : result.value[k][2] = Rat(25, 100)

\* A prediction in which one category holds a rule contribution plus the
\* hint, another a rule contribution alone, and the others the base score.
C21_Witness ==
  /\ op = "predict_from_image"
  /\ ~request.analysis.error
  /\ result.status = "ok"
  /\ \E c, d, e \in Categories :
       /\ c # d
       /\ ClaimedImageScore(c, request.analysis) # RZero
       /\ CreditedCategory(request.text_hint) = c
       /\ ClaimedImageScore(d, request.analysis) # RZero
       /\ ClaimedImageScore(e, request.analysis) = RZero
       /\ CreditedCategory(request.text_hint) # e

\* Keyword kw stands in one of the three relations of C22 to the query q.
Related(kw, q) == kw = q \/ In(kw, q) \/ In(q, kw)

\* The catalog positions with a keyword related to the lowercased query.
RelatedItems(query) ==
  {i \in 1..Len(items) :
     \E k \in 1..Len(items[i].keywords) : Related(items[i].keywords[k], Lower(query))}

\* The catalog positions with a keyword equal to the lowercased query.
ExactKeywordItems(query) ==
  {i \in 1..Len(items) :
     \E k \in 1..Len(items[i].keywords) : items[i].keywords[k] = Lower(query)}

\* Where the scan of the index first meets item i under a related keyword:
\* the place of the keyword among the keys, then of the item in its list.
FirstMet(i, query) ==
  LET places == {v \in UNION {{<<n, j>> : j \in 1..Len(keyword_index[n][2])} :
                               n \in 1..Len(keyword_index)} :
                   /\ keyword_index[v[1]][2][v[2]] = i
                   /\ Related(keyword_index[v[1]][1], Lower(query))}
  IN CHOOSE v \in places :
       \A w \in places : v[1] < w[1] \/ (v[1] = w[1] /\ v[2] <= w[2])

\* C22: search_by_keyword returns exactly the items with a keyword equal to,
\* contained in or containing the lowercased query, none twice; the items
\* indexed under the exact keyword come first (in the order of their list),
\* and the others follow in the order in which the scan of the index first
\* meets them.
C22_KeywordSearchResult ==
  op = "search_by_keyword" =>
    LET found == result.value
        exact == ExactKeywordItems(request.text)
        n == Cardinality(exact)
    IN /\ result.status = "ok"
       /\ {found[k] : k \in 1..Len(found)} = RelatedItems(request.text)
       /\ \A j, k \in 1..Len(found) : found[j] = found[k] => j = k
       /\ \A k \in 1..Len(found) : k <= n <=> found[k] \in exact
       /\ \A j, k \in 1..Len(found) :
            (j < k /\ k <= n) => found[j] < found[k]
       /\ \A j, k \in 1..Len(found) :
            (n < j /\ j < k) =>
              LET a == FirstMet(found[j], request.text)
                  b == FirstMet(found[k], request.text)
              IN a[1] < b[1] \/ (a[1] = b[1] /\ a[2] < b[2])

\* A search (塑料袋) whose exact keyword holds an item that the scan of the
\* index meets only after another found item, which is found under a keyword
\* contained in the query.
C22_Witness ==
  /\ op = "search_by_keyword"
  /\ result.status = "ok"
  /\ Len(result.value) >= 2
  /\ result.value[1] \in ExactKeywordItems(request.text)
  /\ \E k \in 2..Len(result.value) :
       /\ result.value[k] < result.value[1]
       /\ result.value[k] \notin ExactKeywordItems(request.text)
       /\ \A q \in 1..Len(items[result.value[k]].keywords) :
            ~In(Lower(request.text), items[result.value[k]].keywords[q])

\* The place of the first occurrence of category c in a sequence of
\* categories, 0 when there is none.
FirstPlace(order, c) ==
  IF \E p \in 1..Len(order) : order[p] = c
    THEN CHOOSE p \in 1..Len(order) :
           order[p] = c /\ \A q \in 1..(p - 1) : order[q] # c
    ELSE 0

\* The categories one rule contributes to when its trigger is in the text.
RuleTargets(rule, t) ==
  IF ~In(rule.trigger, t) THEN <<>>
  ELSE IF rule.kind = "category" THEN <<rule.category>>
  ELSE IF rule.kind = "categories" THEN rule.categories
  ELSE IF In(Decrease, rule.effect) \/ In(Become, rule.effect) THEN <<"OTHER">>
  ELSE <<>>

RECURSIVE Flatten(_)
Flatten(lists) == IF lists = <<>> THEN <<>> ELSE Head(lists) \o Flatten(Tail(lists))

\* The categories in the order in which combine_with_keyword_search gives
\* them a contribution: the rules in table order (material, usage, state),
\* then the categories of the items classify_by_text returned.
CombineOrder(text) ==
  LET table == rules.material_rules \o rules.usage_rules \o rules.state_rules
      keyword == ClassifyByText(text)
  IN Flatten([k \in 1..Len(table) |-> RuleTargets(table[k], Lower(text))])
       \o (IF keyword.status = "ok"
             THEN [k \in 1..Len(keyword.value) |-> items[keyword.value[k][1]].category]
             ELSE <<>>)

\* The categories in the order in which predict_from_image gives them a
\* score: the image rules (Recyclable, Kitchen, Hazardous, Other), the hint,
\* then the base score in enum order.
PredictOrder(analysis, text_hint) ==
  SelectSeq(<<"RECYCLABLE", "KITCHEN", "HAZARDOUS", "OTHER">>,
            LAMBDA c : ClaimedImageScore(c, analysis) # RZero)
    \o SelectSeq(GarbageCategory, LAMBDA c : CreditedCategory(text_hint) = c)
    \o GarbageCategory

\* Entries of equal score stand in the given order of first contribution.
TiesFollow(ranked, order) ==
  \A j, k \in 1..Len(ranked) :
    (j < k /\ ranked[j][2] = ranked[k][2]) =>
      /\ FirstPlace(order, ranked[j][1]) > 0
      /\ FirstPlace(order, ranked[j][1]) < FirstPlace(order, ranked[k][1])

\* C23: in the lists returned by combine_with_keyword_search and by the
\* success path of predict_from_image, categories of equal score stand in
\* the order in which they first received a contribution during the call.
C23_TiesInContributionOrder ==
  /\ (op = "combine_with_keyword_search" /\ result.status = "ok") =>
       TiesFollow(result.value, CombineOrder(request.text))
  /\ (op = "predict_from_image" /\ ~request.analysis.error) =>
       /\ result.status = "ok"
       /\ TiesFollow(result.value, PredictOrder(request.analysis, request.text_hint))

\* Two categories tie and are listed against the enum order: Kitchen before
\* Hazardous.
TieAgainstEnumOrder ==
  \E j \in 1..(Len(result.value) - 1) :
    /\ result.value[j][2] = result.value[j + 1][2]
    /\ result.value[j][1] = "KITCHEN"
    /\ result.value[j + 1][1] = "HAZARDOUS"

C23_Witness ==
  /\ op = "predict_from_image"
  /\ ~request.analysis.error
  /\ result.status = "ok"
  /\ TieAgainstEnumOrder

\* C25: every score of a list returned by combine_with_keyword_search lies
\* in [0, 1].
C25_ScoresAreProbabilities ==
  (op = "combine_with_keyword_search" /\ result.status = "ok") =>
    \A k \in 1..Len(result.value) :
      RLe(RZero, result.value[k][2]) /\ RLe(result.value[k][2], ROne)

\* The upper end is reached: the rules and the exact name match agree on one
\* category, which scores 0.7 + 0.3.
C25_Witness ==
  /\ op = "combine_with_keyword_search"
  /\ result.status = "ok"
  /\ result.value # <<>>
  /\ result.value[1][2] = ROne

\* C24: for every grayscale image of width >= 1 and height >= 1,
\* _analyze_texture reads no index outside the pixel list and its edge score
\* lies in [0, 1].
C24_EdgeScoreInUnitInterval ==
  op = "_analyze_texture" =>
    /\ result.status = "ok"
    /\ RLe(RZero, result.value.edges)
    /\ RLe(result.value.edges, ROne)

\* An image with both loops running and neighbours that differ: a positive
\* edge score.
C24_Witness ==
  /\ op = "_analyze_texture"
  /\ request.image.width = MaxSide /\ request.image.height = MaxSide
  /\ result.status = "ok"
  /\ RLt(RZero, result.value.edges)

\* The number of user_records rows of category c.
RowsOf(c) ==
  Cardinality({k \in 1..Len(database.user_records) :
                 database.user_records[k].category = <<c>>})

\* The sum of statistics.count over the rows of category c.
CountedOf(c) ==
  LET rows == SelectSeq(database.statistics, LAMBDA r : r.category = c)
  IN SumRange([k \in 1..Len(rows) |-> rows[k].count], 1, Len(rows))

\* C28 (as claimed): after any sequence of add_record calls the counts of
\* each category sum to the number of its user_records rows, there is at
\* most one statistics row per (date, category), and a call that returns
\* False changes neither table.
C28_StatisticsMatchRecords ==
  /\ [](/\ \A c \in Categories : CountedOf(c) = RowsOf(c)
        /\ \A j, k \in 1..Len(database.statistics) :
             (/\ database.statistics[j].date = database.statistics[k].date
              /\ database.statistics[j].category = database.statistics[k].category)
               => j = k)
  /\ [][(op' = "add_record" /\ result'.value = FALSE) =>
          /\ database'.user_records = database.user_records
          /\ database'.statistics = database.statistics]_vars

\* C30: over any sequence of ConfigManager() constructions in one process
\* every call returns the same instance, _initialize has run exactly once,
\* and every component reads the model_config weights of _initialize.
C30_OneConfigInstance ==
  /\ Len(config_class.objects) <= 1
  /\ \A i \in 1..Len(config_class.objects) :
       config_class.objects[i].initialize_runs = 1
  /\ \A k \in 1..Len(config_class.holders) :
       /\ config_class.instance = <<config_class.holders[k].config>>
       /\ config_class.objects[config_class.holders[k].config].model_config
            = <<ModelConfig>>
  /\ op = "model_config" => result = Ok(ModelConfig)

\* Three components hold the configuration and one has read the weights.
C30_Witness ==
  /\ Len(config_class.holders) = 3
  /\ config_class.holders[1].component # config_class.holders[2].component
  /\ op = "model_config"
  /\ request.component = config_class.holders[3].component

\* The statistics form's request: /stats with a query string whose days
\* field is a number.
StatsFormRequest ==
  /\ op = "do_GET"
  /\ Urlparse(request.path).path = Path_Stats
  /\ Urlparse(request.path).query # <<>>
  /\ ParseInt(QueryGet(ParseQs(Urlparse(request.path).query), Key_Days, Default_Days)).status
       = "ok"

\* C26 (as claimed): a GET for /stats?days=N&user_filter=F is answered with
\* the statistics page computed for N days, not with the home page.
C26_StatsQueryDispatched ==
  StatsFormRequest =>
    /\ server.response.page = "stats"
    /\ server.response.detail.total_days =
         ParseInt(QueryGet(ParseQs(Urlparse(request.path).query), Key_Days, Default_Days)).value

\* The user_records rows with the given action.
RecordsOf(db, action) ==
  {k \in 1..Len(db.user_records) : db.user_records[k].action = action}

C29_UploadProcessed ==
  (/\ op = "do_POST"
   /\ request.path = Path_Upload
   /\ ParseHeader(request.content_type) = MultipartFormData
   /\ request.filename # <<>>) =>
    /\ server.response.status = 200
    /\ server.files # <<>>
    /\ RecordsOf(database, "image_upload") # {}

====
